---- MODULE Spec2Model ----
(***************************************************************************)
(* Model of the pull-request review service:                               *)
(*   - DeepSeekService.reviewMultipleChunks / reviewCodeChunk (the review   *)
(*     orchestrator), specification Spec;                                   *)
(*   - verifyGitHubSignature (the signature verifier), SpecVerify;          *)
(*   - the Express chain and router.post('/github'), SpecWebhook;           *)
(*   - GitHubService.parseDiffToChunks (the diff parser), SpecParse, and   *)
(*     repeated calls of it on one service, SpecReparse.                    *)
(* Strings the code inspects character by character (signatures, diff      *)
(* lines) are sequences of one-character strings.  Messages the code only  *)
(* passes along are ASCII stand-ins for the source's literals.             *)
(***************************************************************************)
EXTENDS Integers, Sequences, FiniteSets, TLC

VARIABLES
    \* ---- review orchestrator (DeepSeekService) ----
    apiKey,        \* this.apiKey: TRUE when DEEPSEEK_API_KEY is set
    chunks,        \* the chunks argument of reviewMultipleChunks
    batches,       \* const batches
    batchIdx,      \* position of the for-of loop over batches (0: not started)
    promises,      \* batchPromises of the current batch
    results,       \* const results
    pc,            \* position of reviewMultipleChunks
    inFlight,      \* ids of chunks whose axios.post has not settled
    callOutcome,   \* per chunk id: what its own call met
    issuedLog,     \* chunk ids in the order their calls were started
    arrivals,      \* positions of the current batch in the order their calls settled
    delays,        \* number of inter-batch timers that have elapsed
    \* ---- signature verifier / webhook endpoint ----
    secret,        \* process.env.GITHUB_WEBHOOK_SECRET (NoSecret when unset)
    req,           \* the inbound request
    vpc,           \* position of the verifier harness
    vres,          \* what verifyGitHubSignature did with (req, res, next)
    wpc,           \* position of the request in the Express chain
    wres,          \* responses sent for the request, in order
    handlersRun,   \* event handlers that ran for the request
    world,         \* what the diff URL serves and how the reviewer's calls end
    \* ---- diff parser (GitHubService.parseDiffToChunks) ----
    lines,         \* diffText.split('\n')
    diffValid,     \* the input is a valid unified diff
    li,            \* loop index i (1-based)
    currentFile,
    currentHunk,
    oldLineNumber,
    newLineNumber,
    pchunks,       \* const chunks of parseDiffToChunks
    ppc,           \* position of parseDiffToChunks
    callLog,       \* earlier calls of parseDiffToChunks: argument and return value
    \* ---- merge and summary (processReviewResults, generateReviewSummary) ----
    mergeChunks,   \* the chunks argument of processReviewResults
    outcomes,      \* per position of mergeChunks: what the chunk's own call met
    reviewResults, \* the reviewResults argument of both functions
    reviewedChunks,\* the value processReviewResults returned
    summary,       \* the value generateReviewSummary returned
    mpc,           \* position in steps 3 and 4 of the review
    \* ---- comment poster (addReviewCommentsToPR) ----
    postChunks,    \* the reviewedChunks argument of addReviewCommentsToPR
    posted,        \* comments GitHub accepted, in order
    postIdx,       \* position of the nested loops, counted in line comments tried
    apc            \* position of addReviewCommentsToPR

reviewVars == <<apiKey, chunks, batches, batchIdx, promises, results, pc,
                inFlight, callOutcome, issuedLog, arrivals, delays>>
hookVars == <<secret, req, vpc, vres, wpc, wres, handlersRun, world>>
parseVars == <<lines, diffValid, li, currentFile, currentHunk, oldLineNumber,
               newLineNumber, pchunks, ppc, callLog>>
mergeVars == <<mergeChunks, outcomes, reviewResults, reviewedChunks, summary, mpc>>
postVars == <<postChunks, posted, postIdx, apc>>
vars == <<reviewVars, hookVars, parseVars, mergeVars, postVars>>

Null == "null"

Min(a, b) == IF a < b THEN a ELSE b

Max(a, b) == IF a > b THEN a ELSE b

Range(s) == {s[k] : k \in 1..Len(s)}

\* null and a present value of a nullable field.
None == <<>>

Some(x) == <<x>>

(***************************************************************************)
(* Review orchestrator                                                     *)
(***************************************************************************)

\* Largest number of chunks handed to reviewMultipleChunks.
MaxChunks == 7

concurrencyLimit == 3

\* File names of the input chunks.
PathNames == <<"a.js", "b.js", "c.js", "d.js">>

\* The chunks of a diff with n hunks, perFile hunks in each file.
InputChunks(n, perFile) ==
    [k \in 1..n |->
        [id |-> k,
         oldFilePath |-> PathNames[(((k - 1) \div perFile) % Len(PathNames)) + 1],
         newFilePath |-> PathNames[(((k - 1) \div perFile) % Len(PathNames)) + 1],
         newStartLine |-> 1 + 10 * ((k - 1) % perFile)]]

\* A reply of the reviewer is abstracted to its sections, each section to
\* the set of keywords parseAIResponse looks for in it:
\*   "overall" (zong ti ping jia / zheng ti ping gu), "improve" (xu yao gai
\*   jin), "problem" (cun zai wen ti), "suggest" (jian yi), "risk" (feng
\*   xian / an quan).
Replies ==
    { [text |-> "reply-good", sections |-> <<{"overall"}>>],
      [text |-> "reply-improve", sections |-> <<{"overall", "improve"}, {"suggest"}>>],
      [text |-> "reply-problem", sections |-> <<{"overall", "improve", "problem"}, {"risk"}>>] }

\* error.message of a failed axios.post (timeout, error status).
Errors == {"timeout of 30000ms exceeded"}

RECURSIVE RatingAfter(_, _)
\* sections.forEach of parseAIResponse: the rating after all sections.
RatingAfter(sections, rating) ==
    IF sections = <<>> THEN rating
    ELSE LET s == Head(sections)
             r == IF "overall" \in s /\ ("improve" \in s \/ "problem" \in s)
                  THEN (IF "problem" \in s THEN "needs_attention" ELSE "needs_improvement")
                  ELSE rating
         IN RatingAfter(Tail(sections), r)

\* Mutant of parseAIResponse: the comment's path is always newFilePath.
parseAIResponseNewPathOnly(aiResponse, chunk) ==
    LET overallRating == RatingAfter(aiResponse.sections, "good") IN
    [comments |-> << [type |-> "review",
                      content |-> aiResponse.text,
                      severity |-> IF overallRating = "needs_attention" THEN "high"
                                   ELSE IF overallRating = "needs_improvement" THEN "medium"
                                   ELSE "low",
                      line |-> chunk.newStartLine,
                      path |-> chunk.newFilePath] >>,
     suggestions |-> SelectSeq(aiResponse.sections, LAMBDA s : "suggest" \in s),
     risks |-> SelectSeq(aiResponse.sections, LAMBDA s : "risk" \in s),
     rating |-> overallRating]

parseAIResponse(aiResponse, chunk) ==
    LET overallRating == RatingAfter(aiResponse.sections, "good") IN
    [comments |-> << [type |-> "review",
                      content |-> aiResponse.text,
                      severity |-> IF overallRating = "needs_attention" THEN "high"
                                   ELSE IF overallRating = "needs_improvement" THEN "medium"
                                   ELSE "low",
                      line |-> chunk.newStartLine,
                      path |-> IF chunk.newFilePath # Null THEN chunk.newFilePath
                               ELSE chunk.oldFilePath] >>,
     suggestions |-> SelectSeq(aiResponse.sections, LAMBDA s : "suggest" \in s),
     risks |-> SelectSeq(aiResponse.sections, LAMBDA s : "risk" \in s),
     rating |-> overallRating]

\* The value reviewCodeChunk returns when no API key is configured.
NoKeyReview ==
    [success |-> FALSE, error |-> "DeepSeek API Key not configured", aiComments |-> <<>>]

\* The value reviewCodeChunk returns from its catch block.
FailedReview(message) ==
    [success |-> FALSE, error |-> message, aiComments |-> <<>>]

\* The value reviewCodeChunk returns once axios.post has answered.
SuccessReview(reply, chunk) ==
    LET reviewResult == parseAIResponse(reply, chunk) IN
    [success |-> TRUE,
     aiComments |-> reviewResult.comments,
     overallRating |-> reviewResult.rating,
     suggestions |-> reviewResult.suggestions,
     risks |-> reviewResult.risks]

\* What the network can answer to one call.
Outcomes ==
    {[kind |-> "reply", reply |-> r] : r \in Replies}
        \cup {[kind |-> "error", message |-> e] : e \in Errors}

\* reviewCodeChunk after its await: the review it resolves with (the try
\* block on an answer, the catch block on an error).
ReviewOfOutcome(o, chunk) ==
    IF o.kind = "reply" THEN SuccessReview(o.reply, chunk)
    ELSE FailedReview(o.message)

\* Mutant of StartedPromise: the request is sent whether or not a key is set.
StartedPromiseAlwaysCalls == [status |-> "pending"]

\* Mutant of StartedPromise: reviewCodeChunk returns without awaiting its
\* request.
StartedPromiseNotAwaited == [status |-> "fulfilled", value |-> NoKeyReview]

\* reviewCodeChunk up to its first await: without an API key the promise is
\* already fulfilled, otherwise the request is outstanding.
StartedPromise ==
    IF apiKey THEN [status |-> "pending"]
    ELSE [status |-> "fulfilled", value |-> NoKeyReview]

\* Mutant of BatchSlice: the slice end is off by one.
BatchSliceOffByOne(cs, i) == SubSeq(cs, i + 1, Min(i + concurrencyLimit + 1, Len(cs)))

\* chunks.slice(i, i + concurrencyLimit), i counted from 0.
BatchSlice(cs, i) == SubSeq(cs, i + 1, Min(i + concurrencyLimit, Len(cs)))

\* Mutant of MakeBatches: all chunks go into one batch.
MakeBatchesSingle(cs) == IF cs = <<>> THEN <<>> ELSE <<cs>>

\* for (let i = 0; i < chunks.length; i += concurrencyLimit) batches.push(...)
MakeBatches(cs) ==
    [j \in 1..((Len(cs) + concurrencyLimit - 1) \div concurrencyLimit) |->
        BatchSlice(cs, (j - 1) * concurrencyLimit)]

\* batches.indexOf(batch), counted from 0 (-1 when absent).
IndexOf(bs, batch) ==
    IF \E j \in 1..Len(bs) : bs[j] = batch
    THEN (CHOOSE j \in 1..Len(bs) : bs[j] = batch /\ \A h \in 1..(j - 1) : bs[h] # batch) - 1
    ELSE -1

\* Mutant of DelayAfter: the comparison misses the "- 1".
DelayAfterEveryBatch(bs, batch) == IndexOf(bs, batch) < Len(bs)

\* if (batches.indexOf(batch) < batches.length - 1)
DelayAfter(bs, batch) == IndexOf(bs, batch) < Len(bs) - 1

\* Mutant of BatchResults: reviews are taken in the order the calls settled.
BatchResultsByArrival(batch, proms) ==
    [k \in 1..Len(proms) |-> [chunk |-> batch[k], review |-> proms[arrivals[k]].value]]

\* Mutant of BatchResults: one failed call fails the whole batch
\* (Promise.all semantics).
BatchResultsFailFast(batch, proms) ==
    LET bad == {k \in 1..Len(proms) : ~proms[k].value.success} IN
    [k \in 1..Len(proms) |->
        [chunk |-> batch[k],
         review |-> IF bad = {} THEN proms[k].value
                    ELSE proms[CHOOSE b \in bad : \A c \in bad : b <= c].value]]

\* batchResults.forEach((result, index) => results.push(...)): the entries
\* pushed for one batch, by position in the batch.
BatchResults(batch, proms) ==
    [k \in 1..Len(proms) |->
        IF proms[k].status = "fulfilled"
        THEN [chunk |-> batch[k], review |-> proms[k].value]
        ELSE [chunk |-> batch[k],
              review |-> [success |-> FALSE, error |-> proms[k].reason, aiComments |-> <<>>]]]

\* const batchPromises = batch.map(chunk => this.reviewCodeChunk(chunk, prContext))
IssueBatch(j) ==
    LET batch == batches'[j] IN
    /\ batchIdx' = j
    /\ promises' = [k \in 1..Len(batch) |-> StartedPromise]
    /\ issuedLog' = issuedLog \o [k \in 1..Len(batch) |-> batch[k].id]
    /\ inFlight' = IF apiKey THEN {batch[k].id : k \in 1..Len(batch)} ELSE {}
    /\ callOutcome' = IF apiKey THEN callOutcome
                      ELSE [c \in DOMAIN callOutcome |->
                              IF \E k \in 1..Len(batch) : batch[k].id = c
                              THEN [kind |-> "nokey"] ELSE callOutcome[c]]
    /\ arrivals' = IF apiKey THEN <<>> ELSE [k \in 1..Len(batch) |-> k]
    /\ pc' = "await"

\* The loop has no batch left: log and return results.
Finish ==
    /\ pc' = "done"
    /\ UNCHANGED <<batchIdx, promises, issuedLog, inFlight, callOutcome, arrivals>>

\* reviewMultipleChunks from its entry to the first await (or to its return
\* when there is no chunk).
StartReview ==
    /\ pc = "start"
    /\ results' = <<>>
    /\ batches' = MakeBatches(chunks)
    /\ IF Len(batches') > 0 THEN IssueBatch(1) ELSE Finish
    /\ UNCHANGED <<apiKey, chunks, delays>>

\* The axios.post of the k-th call of the current batch settles, and
\* reviewCodeChunk runs to its return.
CallSettles(k) ==
    /\ pc = "await"
    /\ k \in 1..Len(promises)
    /\ promises[k].status = "pending"
    /\ \E o \in Outcomes :
        LET chunk == batches[batchIdx][k] IN
        /\ promises' = [promises EXCEPT
                          ![k] = [status |-> "fulfilled", value |-> ReviewOfOutcome(o, chunk)]]
        /\ callOutcome' = [callOutcome EXCEPT ![chunk.id] = o]
        /\ inFlight' = inFlight \ {chunk.id}
        /\ arrivals' = Append(arrivals, k)
    /\ UNCHANGED <<apiKey, chunks, batches, batchIdx, results, pc, issuedLog, delays>>

\* Promise.allSettled resolves: push the batch's results, then either arm
\* the 1000 ms timer, or go on to the next batch, or return.
CollectBatch ==
    /\ pc = "await"
    /\ \A k \in 1..Len(promises) : promises[k].status # "pending"
    /\ results' = results \o BatchResults(batches[batchIdx], promises)
    /\ batches' = batches
    /\ IF DelayAfter(batches, batches[batchIdx])
       THEN /\ pc' = "delay"
            /\ arrivals' = <<>>
            /\ UNCHANGED <<batchIdx, promises, issuedLog, inFlight, callOutcome>>
       ELSE IF batchIdx < Len(batches) THEN IssueBatch(batchIdx + 1) ELSE Finish
    /\ UNCHANGED <<apiKey, chunks, delays>>

\* The setTimeout(resolve, 1000) between two batches fires.
DelayElapses ==
    /\ pc = "delay"
    /\ delays' = delays + 1
    /\ batches' = batches
    /\ IF batchIdx < Len(batches) THEN IssueBatch(batchIdx + 1) ELSE Finish
    /\ UNCHANGED <<apiKey, chunks, results>>

ReviewInit ==
    /\ apiKey \in BOOLEAN
    /\ \E n \in 0..MaxChunks, perFile \in {1, 2} : chunks = InputChunks(n, perFile)
    /\ batches = <<>>
    /\ batchIdx = 0
    /\ promises = <<>>
    /\ results = <<>>
    /\ pc = "start"
    /\ inFlight = {}
    /\ callOutcome = [c \in 1..Len(chunks) |-> [kind |-> "none"]]
    /\ issuedLog = <<>>
    /\ arrivals = <<>>
    /\ delays = 0

ReviewIdle ==
    /\ apiKey = FALSE
    /\ chunks = <<>>
    /\ batches = <<>>
    /\ batchIdx = 0
    /\ promises = <<>>
    /\ results = <<>>
    /\ pc = "idle"
    /\ inFlight = {}
    /\ callOutcome = <<>>
    /\ issuedLog = <<>>
    /\ arrivals = <<>>
    /\ delays = 0

(***************************************************************************)
(* Signature verifier: verifyGitHubSignature                               *)
(***************************************************************************)

\* process.env.GITHUB_WEBHOOK_SECRET when it is not set.
NoSecret == ""

Secrets == {"test_webhook_secret", "other_secret"}

\* Bytes of the modelled digest (SHA-256 has 32; the model keeps the
\* fixed-length hex encoding with a shorter digest).
DigestBytes == 1

HexDigits == <<"0", "1", "2", "3", "4", "5", "6", "7", "8", "9", "a", "b", "c", "d", "e", "f">>

Sha256Prefix == <<"s", "h", "a", "2", "5", "6", "=">>

\* Characters that occur in the modelled headers, with their ASCII codes.
AsciiTable ==
    [c \in Range(HexDigits) \cup {"s", "h", "=", "x"} |->
        CASE c = "0" -> 48 [] c = "1" -> 49 [] c = "2" -> 50 [] c = "3" -> 51
          [] c = "4" -> 52 [] c = "5" -> 53 [] c = "6" -> 54 [] c = "7" -> 55
          [] c = "8" -> 56 [] c = "9" -> 57 [] c = "a" -> 97 [] c = "b" -> 98
          [] c = "c" -> 99 [] c = "d" -> 100 [] c = "e" -> 101 [] c = "f" -> 102
          [] c = "h" -> 104 [] c = "s" -> 115 [] c = "x" -> 120 [] c = "=" -> 61]

\* Buffer.from(str, 'utf8'): one byte per (ASCII) character.
BufferFrom(str) == [k \in 1..Len(str) |-> AsciiTable[str[k]]]

\* The decoded payload of a pull_request body with all the objects
\* extractPullRequestInfo reads.
CompleteBody(raw, action, number, title) ==
    [raw |-> raw, valid |-> TRUE, zen |-> Null, action |-> action, complete |-> TRUE,
     missing |-> Null, number |-> number, title |-> title]

\* A pull_request body in which one object is absent.
IncompleteBody(raw, action, missing) ==
    [raw |-> raw, valid |-> TRUE, zen |-> Null, action |-> action, complete |-> FALSE,
     missing |-> missing, number |-> 0, title |-> Null]

\* The raw request bodies.  raw identifies the bytes; valid says whether
\* JSON.parse accepts them; the other fields are what the decoded payload
\* holds (complete: pull_request, repository and sender with their nested
\* objects are all present; missing: the first object extractPullRequestInfo
\* would read and that is absent).
Bodies ==
    { [raw |-> 1, valid |-> TRUE, zen |-> "Design for failure.", action |-> Null,
       complete |-> FALSE, missing |-> "pull_request", number |-> 0, title |-> Null],
      CompleteBody(2, "opened", 123, "test Pull Request"),
      CompleteBody(3, "closed", 123, "test Pull Request"),
      IncompleteBody(4, "synchronize", "pull_request"),
      [raw |-> 5, valid |-> FALSE, zen |-> Null, action |-> Null,
       complete |-> FALSE, missing |-> "pull_request", number |-> 0, title |-> Null],
      CompleteBody(6, "reopened", 123, "test Pull Request"),
      CompleteBody(7, "synchronize", 8, "fix parser"),
      CompleteBody(8, "ready_for_review", 123, "test Pull Request"),
      CompleteBody(9, "edited", 123, "test Pull Request"),
      IncompleteBody(10, "opened", "pull_request.head"),
      IncompleteBody(11, "opened", "repository"),
      IncompleteBody(12, "opened", "sender") }

KeyNumber(key) == IF key = "test_webhook_secret" THEN 1 ELSE 2

\* crypto.createHmac('sha256', secret).update(body): the digest as a number.
\* HMAC-SHA256 is abstracted to a keyed function that has no collision on
\* the modelled secrets and bodies.
HmacDigest(key, body) == (97 * KeyNumber(key) + 31 * body.raw + 7) % (256 ^ DigestBytes)

RECURSIVE HexEncode(_, _)
\* .digest('hex'): n written with the given number of hex digits.
HexEncode(n, digits) ==
    IF digits = 0 THEN <<>>
    ELSE Append(HexEncode(n \div 16, digits - 1), HexDigits[(n % 16) + 1])

\* 'sha256=' + crypto.createHmac('sha256', secret).update(req.body).digest('hex')
ExpectedSignature(key, body) == Sha256Prefix \o HexEncode(HmacDigest(key, body), 2 * DigestBytes)

\* crypto.timingSafeEqual(a, b): throws a RangeError when the byte lengths
\* differ, otherwise compares all bytes.
timingSafeEqual(a, b) ==
    IF Len(a) # Len(b) THEN [threw |-> TRUE, equal |-> FALSE]
    ELSE [threw |-> FALSE, equal |-> (a = b)]

Header(str) == [present |-> TRUE, value |-> str]

NoHeader == [present |-> FALSE, value |-> <<>>]

\* !signature: the header is undefined or the empty string.
Missing(header) == ~header.present \/ header.value = <<>>

\* Signature headers a client may send with a body.
SignatureHeaders(body) ==
    {NoHeader, Header(<<>>), Header(Sha256Prefix \o <<"x", "x">>)}
        \cup {Header(ExpectedSignature(k, b)) : k \in Secrets, b \in Bodies}
        \cup {Header(SubSeq(ExpectedSignature(k, body), 1, Len(Sha256Prefix) + 1)) : k \in Secrets}
        \cup {Header(ExpectedSignature(k, body) \o <<"0">>) : k \in Secrets}

EventTypes == {"ping", "pull_request", "push"}

Requests ==
    UNION { { [eventType |-> t, signature |-> h, body |-> b] : h \in SignatureHeaders(b) }
            : t \in EventTypes, b \in Bodies }

\* The surroundings of a request: whether the pull request's diff URL
\* can be fetched and what its text parses to, and how the calls to the
\* reviewer's API end.
Worlds ==
    [diff : {"unreachable", "no chunks", "chunks"},
     reviewer : {"answers", "some calls fail", "all calls fail"}]

QuietWorld == [diff |-> "no chunks", reviewer |-> "answers"]

Unauthorized(message) ==
    [next |-> FALSE, status |-> 401, error |-> "unauthorized", message |-> message]

\* Mutant of VerifyWithSecret: the "return" of the mismatch branch is
\* missing, so next() is called after a failed comparison too.
VerifyWithSecretNoReject(r, key) ==
    IF Missing(r.signature)
    THEN Unauthorized("missing GitHub signature")
            @@ [warned |-> FALSE, compared |-> FALSE, threw |-> FALSE]
    ELSE LET cmp == timingSafeEqual(BufferFrom(r.signature.value),
                                    BufferFrom(ExpectedSignature(key, r.body)))
         IN IF cmp.threw
            THEN [next |-> FALSE, status |-> 500, error |-> "internal server error",
                  message |-> "signature verification failed",
                  warned |-> FALSE, compared |-> TRUE, threw |-> TRUE]
            ELSE [next |-> TRUE, status |-> IF cmp.equal THEN 0 ELSE 401,
                  error |-> "", message |-> "",
                  warned |-> FALSE, compared |-> TRUE, threw |-> FALSE]

\* verifyGitHubSignature once a secret is configured (lines 20-57).
VerifyWithSecret(r, key) ==
    IF Missing(r.signature)
    THEN Unauthorized("missing GitHub signature")
            @@ [warned |-> FALSE, compared |-> FALSE, threw |-> FALSE]
    ELSE LET expectedSignature == ExpectedSignature(key, r.body)
             cmp == timingSafeEqual(BufferFrom(r.signature.value),
                                    BufferFrom(expectedSignature))
         IN IF cmp.threw
            THEN [next |-> FALSE, status |-> 500, error |-> "internal server error",
                  message |-> "signature verification failed",
                  warned |-> FALSE, compared |-> TRUE, threw |-> TRUE]
            ELSE IF ~cmp.equal
            THEN Unauthorized("GitHub signature verification failed")
                    @@ [warned |-> FALSE, compared |-> TRUE, threw |-> FALSE]
            ELSE [next |-> TRUE, status |-> 0, error |-> "", message |-> "",
                  warned |-> FALSE, compared |-> TRUE, threw |-> FALSE]

\* Mutant of VerifyWithoutSecret: the early return is missing, so the
\* request falls through to the signature checks with an undefined key.
VerifyWithoutSecretFallThrough(r) ==
    IF Missing(r.signature)
    THEN Unauthorized("missing GitHub signature")
            @@ [warned |-> TRUE, compared |-> FALSE, threw |-> FALSE]
    ELSE [next |-> FALSE, status |-> 500, error |-> "internal server error",
          message |-> "signature verification failed",
          warned |-> TRUE, compared |-> FALSE, threw |-> FALSE]

\* verifyGitHubSignature when no secret is configured (lines 14-18): warn
\* and call next().
VerifyWithoutSecret(r) ==
    [next |-> TRUE, status |-> 0, error |-> "", message |-> "",
     warned |-> TRUE, compared |-> FALSE, threw |-> FALSE]

\* verifyGitHubSignature(req, res, next): next says whether next() was
\* called, status is the response it sent (0: none), warned whether it
\* logged the skipped-verification warning, compared whether
\* crypto.timingSafeEqual was called and threw whether that call threw.
verifyGitHubSignature(r, key) ==
    IF key = NoSecret THEN VerifyWithoutSecret(r) ELSE VerifyWithSecret(r, key)

\* Express calls the middleware on the request.
RunVerify ==
    /\ vpc = "called"
    /\ vres' = verifyGitHubSignature(req, secret)
    /\ vpc' = "returned"
    /\ UNCHANGED <<secret, req, wpc, wres, handlersRun, world>>

VerifyInit ==
    /\ secret \in {NoSecret} \cup Secrets
    /\ req \in Requests
    /\ vpc = "called"
    /\ vres = [next |-> FALSE, status |-> 0, error |-> "", message |-> "",
               warned |-> FALSE, compared |-> FALSE, threw |-> FALSE]
    /\ wpc = "idle"
    /\ wres = <<>>
    /\ handlersRun = {}
    /\ world = QuietWorld

(***************************************************************************)
(* Webhook endpoint: the Express chain and router.post('/github')          *)
(***************************************************************************)

\* new Date().toISOString()
IsoTimestamp == "2023-01-01T12:00:00.000Z"

Respond(response) ==
    /\ wres' = Append(wres, response)
    /\ wpc' = "responded"

\* The catch block of router.post('/github').
InternalError(message) ==
    [status |-> 500, error |-> "internal server error", message |-> message]

\* app.use of helmet, cors, express.raw({type: 'application/json'}) and
\* express.json: the request reaches the router mounted on /webhook with
\* req.body holding the raw bytes.  No middleware of the chain looks at the
\* signature header.
AppChain ==
    /\ wpc = "received"
    /\ wpc' = "router"
    /\ UNCHANGED <<secret, req, vpc, vres, wres, handlersRun, world>>

\* Mutant of PingResponse: the token of the payload is not echoed.
PingResponseDropsZen(payload) ==
    [status |-> 200, message |-> <<"Webhook received">>, zen |-> Null]

\* The 'ping' branch (lines 88-94).
PingResponse(payload) ==
    [status |-> 200, message |-> <<"Webhook received">>, zen |-> payload.zen]

\* Mutant of DefaultResponse: the event is reported as processed.
DefaultResponseProcessed(eventType) ==
    [status |-> 200, message |-> <<"event ", eventType, " received but not handled">>,
     processed |-> TRUE]

\* The default branch (lines 96-101).
DefaultResponse(eventType) ==
    [status |-> 200, message |-> <<"event ", eventType, " received but not handled">>,
     processed |-> FALSE]

\* router.post('/github', async (req, res) => ...) up to the call of
\* handlePullRequestEvent or to the response.
RouterPostGithub ==
    /\ wpc = "router"
    /\ IF ~req.body.valid
       THEN /\ Respond(InternalError(<<"Unexpected token in JSON">>))
            /\ UNCHANGED handlersRun
       ELSE IF req.eventType = "pull_request"
       THEN /\ wpc' = "handlePullRequestEvent"
            /\ handlersRun' = handlersRun \cup {"pull_request"}
            /\ UNCHANGED wres
       ELSE IF req.eventType = "ping"
       THEN /\ Respond(PingResponse(req.body))
            /\ handlersRun' = handlersRun \cup {"ping"}
       ELSE /\ Respond(DefaultResponse(req.eventType))
            /\ handlersRun' = handlersRun \cup {"default"}
    /\ UNCHANGED <<secret, req, vpc, vres, world>>

\* Mutant of extractPullRequestInfo: absent objects are read as empty.
extractPullRequestInfoLenient(payload) ==
    Some([number |-> payload.number, title |-> payload.title, state |-> "open"])

\* extractPullRequestInfo(payload): None when reading a property of an
\* absent object throws a TypeError, otherwise the fields of prInfo the
\* response uses.
extractPullRequestInfo(payload) ==
    IF payload.missing # Null THEN None
    ELSE Some([number |-> payload.number, title |-> payload.title, state |-> "open"])

\* error.message of the TypeError extractPullRequestInfo throws.
ExtractionError(payload) == <<"Cannot read properties of undefined: ", payload.missing>>

\* Mutant of performCodeReview: the diff is fetched and parsed, the chunks
\* are reviewed, and a failure of the fetch leaves the function.
performCodeReviewPropagates(prInfo, w) ==
    [threw |-> w.diff = "unreachable",
     ran |-> {"performCodeReview", "getPullRequestDiffFromUrl"}
                \cup (IF w.diff = "unreachable" THEN {} ELSE {"parseDiffToChunks"})
                \cup (IF w.diff = "chunks" THEN {"reviewMultipleChunks"} ELSE {})]

\* performCodeReview(prInfo): of the two declarations of this name in the
\* module the later one (lines 602-623) is the function the handlers call;
\* it writes log lines only.  threw: it rejected; ran: the functions that
\* ran in it.
performCodeReview(prInfo, w) ==
    [threw |-> FALSE, ran |-> {"performCodeReview"}]

\* The switch on action (lines 432-450): the handler of the action and what
\* it awaits.
ActionHandler(action, prInfo, w) ==
    IF action \in {"opened", "synchronize", "ready_for_review"}
    THEN LET review == performCodeReview(prInfo, w)
         IN [threw |-> review.threw, ran |-> {action} \cup review.ran]
    ELSE IF action \in {"closed", "reopened"}
    THEN [threw |-> FALSE, ran |-> {action}]
    ELSE [threw |-> FALSE, ran |-> {}]

\* Mutant of SuccessResponse: the pull request of the response is fixed.
SuccessResponseFixedPullRequest(action, prInfo) ==
    [status |-> 200,
     message |-> <<"Pull Request ", action, " event handled">>,
     pullRequest |-> [number |-> 123, title |-> "test Pull Request", state |-> "open"],
     processed |-> TRUE,
     timestamp |-> IsoTimestamp]

\* res.status(200).json({...}) of handlePullRequestEvent (lines 453-462).
SuccessResponse(action, prInfo) ==
    [status |-> 200,
     message |-> <<"Pull Request ", action, " event handled">>,
     pullRequest |-> [number |-> prInfo.number, title |-> prInfo.title,
                      state |-> prInfo.state],
     processed |-> TRUE,
     timestamp |-> IsoTimestamp]

\* Mutant of HandlePullRequestEvent: the catch block of the handler answers
\* the request itself before rethrowing, and the router's catch block
\* answers again.
HandlePullRequestEventAnswersAndRethrows ==
    /\ wpc = "handlePullRequestEvent"
    /\ LET prInfo == extractPullRequestInfo(req.body) IN
       IF prInfo = None
       THEN /\ wres' = wres \o <<InternalError(ExtractionError(req.body)),
                                 InternalError(ExtractionError(req.body))>>
            /\ wpc' = "responded"
            /\ UNCHANGED handlersRun
       ELSE LET handled == ActionHandler(req.body.action, prInfo[1], world) IN
            /\ handlersRun' = handlersRun \cup handled.ran
            /\ IF handled.threw
               THEN Respond(InternalError(<<"diff fetch failed">>))
               ELSE Respond(SuccessResponse(req.body.action, prInfo[1]))
    /\ UNCHANGED <<secret, req, vpc, vres, world>>

\* handlePullRequestEvent(payload, req, res): extractPullRequestInfo throws
\* on a missing object (rethrown, answered by the router's catch block);
\* otherwise the handler of the action runs and the success response is
\* sent; an error of the handler is rethrown to the router as well.
HandlePullRequestEvent ==
    /\ wpc = "handlePullRequestEvent"
    /\ LET prInfo == extractPullRequestInfo(req.body) IN
       IF prInfo = None
       THEN /\ Respond(InternalError(ExtractionError(req.body)))
            /\ UNCHANGED handlersRun
       ELSE LET handled == ActionHandler(req.body.action, prInfo[1], world) IN
            /\ handlersRun' = handlersRun \cup handled.ran
            /\ IF handled.threw
               THEN Respond(InternalError(<<"diff fetch failed">>))
               ELSE Respond(SuccessResponse(req.body.action, prInfo[1]))
    /\ UNCHANGED <<secret, req, vpc, vres, world>>

WebhookInit ==
    /\ secret \in {NoSecret} \cup Secrets
    /\ req \in Requests
    /\ vpc = "idle"
    /\ vres = [next |-> FALSE, status |-> 0, error |-> "", message |-> "",
               warned |-> FALSE, compared |-> FALSE, threw |-> FALSE]
    /\ wpc = "received"
    /\ wres = <<>>
    /\ handlersRun = {}
    /\ world \in Worlds

HookIdle ==
    /\ secret = NoSecret
    /\ req = [eventType |-> "ping", signature |-> NoHeader,
              body |-> CHOOSE b \in Bodies : b.raw = 1]
    /\ vpc = "idle"
    /\ vres = [next |-> FALSE, status |-> 0, error |-> "", message |-> "",
               warned |-> FALSE, compared |-> FALSE, threw |-> FALSE]
    /\ wpc = "idle"
    /\ wres = <<>>
    /\ handlersRun = {}
    /\ world = QuietWorld

(***************************************************************************)
(* Diff parser: GitHubService.parseDiffToChunks                            *)
(***************************************************************************)

\* line.startsWith(prefix)
StartsWith(str, prefix) ==
    Len(str) >= Len(prefix) /\ SubSeq(str, 1, Len(prefix)) = prefix

\* str.substring(from), from counted from 0.
Substring(str, from) == SubSeq(str, from + 1, Len(str))

DiffGitPrefix == <<"d", "i", "f", "f", " ", "-", "-", "g", "i", "t", " ">>

OldPathPrefix == <<"-", "-", "-", " ">>

NewPathPrefix == <<"+", "+", "+", " ">>

DevNull == <<"/", "d", "e", "v", "/", "n", "u", "l", "l">>

Digits == <<"0", "1", "2", "3", "4", "5", "6", "7", "8", "9">>

IsDigit(c) == c \in Range(Digits)

\* \s of the hunk-header pattern (blank or tab).
IsSpace(c) == c \in {" ", "\t"}

DigitValue(c) == (CHOOSE k \in 1..Len(Digits) : Digits[k] = c) - 1

RECURSIVE parseInt(_)
\* parseInt of a string of decimal digits.
parseInt(ds) ==
    IF ds = <<>> THEN 0
    ELSE 10 * parseInt(SubSeq(ds, 1, Len(ds) - 1)) + DigitValue(ds[Len(ds)])

RECURSIVE SkipSpaces(_, _)
\* First position at or after p that holds no white space.
SkipSpaces(str, p) ==
    IF p <= Len(str) /\ IsSpace(str[p]) THEN SkipSpaces(str, p + 1) ELSE p

RECURSIVE SkipDigits(_, _)
\* First position at or after p that holds no digit.
SkipDigits(str, p) ==
    IF p <= Len(str) /\ IsDigit(str[p]) THEN SkipDigits(str, p + 1) ELSE p

\* One "<sign>(\d+)(?:,(\d+))?" group of the pattern, tried at position p:
\* ok, the two captures (the second None when absent) and the position after.
MatchRange(str, p, sign) ==
    LET e1 == SkipDigits(str, p + 1)
        e2 == SkipDigits(str, e1 + 1)
        hasCount == e1 <= Len(str) /\ str[e1] = "," /\ e2 > e1 + 1
    IN IF p <= Len(str) /\ str[p] = sign /\ e1 > p + 1
       THEN [ok |-> TRUE,
             start |-> SubSeq(str, p + 1, e1 - 1),
             count |-> IF hasCount THEN Some(SubSeq(str, e1 + 1, e2 - 1)) ELSE None,
             next |-> IF hasCount THEN e2 ELSE e1]
       ELSE [ok |-> FALSE, start |-> <<>>, count |-> None, next |-> p]

\* line.match(/^@@\s+-(\d+)(?:,(\d+))?\s+\+(\d+)(?:,(\d+))?\s+@@/): None when
\* the line does not match, otherwise the four captures.
MatchHunkHeader(str) ==
    LET p1 == SkipSpaces(str, 3)
        old == MatchRange(str, p1, "-")
        p2 == SkipSpaces(str, old.next)
        new == MatchRange(str, p2, "+")
        p3 == SkipSpaces(str, new.next)
    IN IF /\ StartsWith(str, <<"@", "@">>)
          /\ p1 > 3
          /\ old.ok
          /\ p2 > old.next
          /\ new.ok
          /\ p3 > new.next
          /\ StartsWith(Substring(str, p3 - 1), <<"@", "@">>)
       THEN Some([g1 |-> old.start, g2 |-> old.count, g3 |-> new.start, g4 |-> new.count])
       ELSE None

\* parseInt(hunkMatch[k] || '1') for an optional capture.
CountOf(capture) == IF capture = None THEN parseInt(<<"1">>) ELSE parseInt(capture[1])

\* change.newLineNumber || change.oldLineNumber || (hunk.newStartLine + index):
\* null and 0 are both falsy.
Truthy(n) == n # None /\ n[1] # 0

LineNumberOf(change, hunk, index) ==
    IF Truthy(change.newLineNumber) THEN change.newLineNumber[1]
    ELSE IF Truthy(change.oldLineNumber) THEN change.oldLineNumber[1]
    ELSE hunk.newStartLine + index

ContentsOf(changes, type) ==
    LET sel == SelectSeq(changes, LAMBDA c : c.type = type)
    IN [k \in 1..Len(sel) |-> sel[k].content]

\* Mutant of extractHunkContext: five changed lines are already significant.
extractHunkContextFromFive(changes) ==
    LET addedLines == ContentsOf(changes, "add")
        deletedLines == ContentsOf(changes, "del")
        contextLines == ContentsOf(changes, "normal")
    IN [addedLines |-> addedLines,
        deletedLines |-> deletedLines,
        contextLines |-> contextLines,
        totalChanges |-> Len(addedLines) + Len(deletedLines),
        isSignificant |-> Len(addedLines) + Len(deletedLines) >= 5]

extractHunkContext(changes) ==
    LET addedLines == ContentsOf(changes, "add")
        deletedLines == ContentsOf(changes, "del")
        contextLines == ContentsOf(changes, "normal")
    IN [addedLines |-> addedLines,
        deletedLines |-> deletedLines,
        contextLines |-> contextLines,
        totalChanges |-> Len(addedLines) + Len(deletedLines),
        isSignificant |-> Len(addedLines) + Len(deletedLines) > 5]

createChunk(file, hunk) ==
    [oldFilePath |-> file.oldFilePath,
     newFilePath |-> file.newFilePath,
     fileStatus |-> file.fileStatus,
     oldStartLine |-> hunk.oldStartLine,
     oldLines |-> hunk.oldLines,
     newStartLine |-> hunk.newStartLine,
     newLines |-> hunk.newLines,
     changes |-> [k \in 1..Len(hunk.changes) |->
                    [type |-> hunk.changes[k].type,
                     lineNumber |-> LineNumberOf(hunk.changes[k], hunk, k - 1),
                     content |-> hunk.changes[k].content,
                     oldLineNumber |-> hunk.changes[k].oldLineNumber,
                     newLineNumber |-> hunk.changes[k].newLineNumber]],
     context |-> extractHunkContext(hunk.changes),
     aiComments |-> <<>>,
     reviewStatus |-> "pending"]

\* if (currentHunk && currentFile) chunks.push(this.createChunk(...))
Flushed(cs, file, hunk) ==
    IF hunk # None /\ file # None THEN Append(cs, createChunk(file[1], hunk[1])) ELSE cs

\* The old-path branch (lines 94-106).
OldPathLine(file, line) ==
    LET path == Substring(line, 4) IN
    IF path = DevNull THEN [file EXCEPT !.oldFilePath = None, !.fileStatus = "added"]
    ELSE IF StartsWith(path, <<"a", "/">>)
    THEN [file EXCEPT !.oldFilePath = Some(Substring(path, 2))]
    ELSE [file EXCEPT !.oldFilePath = Some(path)]

\* The new-path branch (lines 109-121).
NewPathLine(file, line) ==
    LET path == Substring(line, 4) IN
    IF path = DevNull THEN [file EXCEPT !.newFilePath = None, !.fileStatus = "deleted"]
    ELSE IF StartsWith(path, <<"b", "/">>)
    THEN [file EXCEPT !.newFilePath = Some(Substring(path, 2))]
    ELSE [file EXCEPT !.newFilePath = Some(path)]

\* The hunk opened by a matching header (lines 132-148).
OpenedHunk(m) ==
    [oldStartLine |-> parseInt(m.g1),
     oldLines |-> CountOf(m.g2),
     newStartLine |-> parseInt(m.g3),
     newLines |-> CountOf(m.g4),
     changes |-> <<>>]

\* Mutant of ChangeOf: an added line is given the old-side number as well.
ChangeOfBothNumbers(line, oldNo, newNo) ==
    LET type == IF StartsWith(line, <<"+">>) THEN "add"
                ELSE IF StartsWith(line, <<"-">>) THEN "del" ELSE "normal"
    IN [type |-> type,
        content |-> Substring(line, 1),
        oldLineNumber |-> Some(oldNo),
        newLineNumber |-> IF type # "del" THEN Some(newNo) ELSE None]

\* The change recorded for a content line (lines 153-162).
ChangeOf(line, oldNo, newNo) ==
    LET type == IF StartsWith(line, <<"+">>) THEN "add"
                ELSE IF StartsWith(line, <<"-">>) THEN "del" ELSE "normal"
    IN [type |-> type,
        content |-> Substring(line, 1),
        oldLineNumber |-> IF type # "add" THEN Some(oldNo) ELSE None,
        newLineNumber |-> IF type # "del" THEN Some(newNo) ELSE None]

\* Mutant of IsContentLine: the test for an open hunk is missing.
IsContentLineAnywhere(line, hunk) ==
    StartsWith(line, <<"+">>) \/ StartsWith(line, <<"-">>) \/ StartsWith(line, <<" ">>)

\* currentHunk && (line.startsWith('+') || line.startsWith('-') || line.startsWith(' '))
IsContentLine(line, hunk) ==
    /\ hunk # None
    /\ StartsWith(line, <<"+">>) \/ StartsWith(line, <<"-">>) \/ StartsWith(line, <<" ">>)

\* One iteration of the for loop of parseDiffToChunks (lines 74-170).
ParseLine ==
    /\ ppc = "loop"
    /\ li <= Len(lines)
    /\ LET line == lines[li] IN
       IF StartsWith(line, DiffGitPrefix)
       THEN /\ pchunks' = Flushed(pchunks, currentFile, currentHunk)
            /\ currentFile' = Some([oldFilePath |-> None, newFilePath |-> None,
                                    fileStatus |-> "modified"])
            /\ currentHunk' = None
            /\ UNCHANGED <<oldLineNumber, newLineNumber>>
       ELSE IF StartsWith(line, OldPathPrefix)
       THEN /\ currentFile' = IF currentFile # None
                              THEN Some(OldPathLine(currentFile[1], line)) ELSE currentFile
            /\ UNCHANGED <<pchunks, currentHunk, oldLineNumber, newLineNumber>>
       ELSE IF StartsWith(line, NewPathPrefix)
       THEN /\ currentFile' = IF currentFile # None
                              THEN Some(NewPathLine(currentFile[1], line)) ELSE currentFile
            /\ UNCHANGED <<pchunks, currentHunk, oldLineNumber, newLineNumber>>
       ELSE IF StartsWith(line, <<"@", "@">>)
       THEN LET hunkMatch == MatchHunkHeader(line) IN
            /\ pchunks' = Flushed(pchunks, currentFile, currentHunk)
            /\ IF hunkMatch # None
               THEN /\ currentHunk' = Some(OpenedHunk(hunkMatch[1]))
                    /\ oldLineNumber' = parseInt(hunkMatch[1].g1)
                    /\ newLineNumber' = parseInt(hunkMatch[1].g3)
               ELSE UNCHANGED <<currentHunk, oldLineNumber, newLineNumber>>
            /\ UNCHANGED currentFile
       ELSE IF IsContentLine(line, currentHunk)
       THEN LET change == ChangeOf(line, oldLineNumber, newLineNumber) IN
            /\ currentHunk' = Some([currentHunk[1] EXCEPT
                                      !.changes = Append(@, change)])
            /\ oldLineNumber' = IF change.type # "add" THEN oldLineNumber + 1
                                ELSE oldLineNumber
            /\ newLineNumber' = IF change.type # "del" THEN newLineNumber + 1
                                ELSE newLineNumber
            /\ UNCHANGED <<pchunks, currentFile>>
       ELSE UNCHANGED <<pchunks, currentFile, currentHunk, oldLineNumber, newLineNumber>>
    /\ li' = li + 1
    /\ UNCHANGED <<lines, diffValid, ppc, callLog>>

\* After the loop: push the last hunk and return chunks (lines 172-177).
ParseReturn ==
    /\ ppc = "loop"
    /\ li > Len(lines)
    /\ pchunks' = Flushed(pchunks, currentFile, currentHunk)
    /\ ppc' = "returned"
    /\ UNCHANGED <<lines, diffValid, li, currentFile, currentHunk, oldLineNumber,
                   newLineNumber, callLog>>

\* Mutant of ParseCatch: the error leaves the function.
ParseCatchRethrows ==
    /\ ppc = "catch"
    /\ ppc' = "raised"
    /\ UNCHANGED <<lines, diffValid, li, currentFile, currentHunk, oldLineNumber,
                   newLineNumber, pchunks, callLog>>

\* The catch block (lines 178-181): the error is logged and [] is returned.
\* Inside the try block only diffText.split can throw, when diffText is not
\* a string; startsWith, substring, match and parseInt do not throw.
ParseCatch ==
    /\ ppc = "catch"
    /\ pchunks' = <<>>
    /\ ppc' = "returned"
    /\ UNCHANGED <<lines, diffValid, li, currentFile, currentHunk, oldLineNumber,
                   newLineNumber, callLog>>

(***************************************************************************)
(* Diff texts handed to parseDiffToChunks                                  *)
(***************************************************************************)

\* Largest number of lines in the hunk whose content varies.
MaxHunkLines == 2

RECURSIVE Decimal(_)
\* A number as the diff prints it.
Decimal(n) ==
    IF n < 10 THEN <<Digits[n + 1]>>
    ELSE Decimal(n \div 10) \o <<Digits[(n % 10) + 1]>>

\* Contents of changed lines: plain text, a line that starts with "-- " (an
\* SQL or Lua comment) and a line that starts with "++ ", each of the two
\* also with /dev/null as the rest of the line.
Contents ==
    { <<"x">>, <<"-", "-", " ", "c">>, <<"+", "+", " ", "c">>,
      <<"-", "-", " ">> \o DevNull, <<"+", "+", " ">> \o DevNull }

\* "\ No newline at end of file"
NoNewlineMarker == <<"\\", " ", "N", "o">>

\* The lines a hunk may hold: a kind and a content, or the marker.
LineSpecs ==
    {[kind |-> k, content |-> c] : k \in {"+", "-", " "}, c \in Contents}
        \cup {[kind |-> "\\", content |-> <<>>]}

HunkBodies ==
    {b \in UNION {[1..n -> LineSpecs] : n \in 1..MaxHunkLines} : b[1].kind # "\\"}

LineText(l) == IF l.kind = "\\" THEN NoNewlineMarker ELSE <<l.kind>> \o l.content

CountKinds(body, kinds) == Cardinality({k \in 1..Len(body) : body[k].kind \in kinds})

\* "<sign>start,count", the count left out when it is 1 and omit is set.
RangeText(sign, start, count, omit) ==
    <<sign>> \o Decimal(start)
        \o (IF omit /\ count = 1 THEN <<>> ELSE <<",">> \o Decimal(count))

\* The header git writes for a hunk with this body.
HunkHeader(oldStart, newStart, body, omit) ==
    <<"@", "@", " ">>
        \o RangeText("-", oldStart, CountKinds(body, {"-", " "}), omit)
        \o <<" ">>
        \o RangeText("+", newStart, CountKinds(body, {"+", " "}), omit)
        \o <<" ", "@", "@">>

HunkText(oldStart, newStart, body, omit) ==
    <<HunkHeader(oldStart, newStart, body, omit)>> \o [k \in 1..Len(body) |-> LineText(body[k])]

\* The header lines of one file of the diff.
FileHeader(name, status) ==
    << DiffGitPrefix \o <<"a", "/">> \o name \o <<" ", "b", "/">> \o name,
       <<"i", "n", "d", "e", "x", " ", "1", "2">>,
       OldPathPrefix \o (IF status = "added" THEN DevNull ELSE <<"a", "/">> \o name),
       NewPathPrefix \o (IF status = "deleted" THEN DevNull ELSE <<"b", "/">> \o name) >>

\* The hunks of a file with the given status and body.
StatusFits(status, body) ==
    CASE status = "added" -> \A k \in 1..Len(body) : body[k].kind \in {"+", "\\"}
      [] status = "deleted" -> \A k \in 1..Len(body) : body[k].kind \in {"-", "\\"}
      [] OTHER -> TRUE

FirstHunk(status, body, omit) ==
    HunkText(IF status = "added" THEN 0 ELSE IF status = "deleted" THEN 1 ELSE 3,
             IF status = "deleted" THEN 0 ELSE IF status = "added" THEN 1 ELSE 3,
             body, omit)

PlainBody == <<[kind |-> "+", content |-> <<"x">>]>>

\* diffText.split('\n') of a diff that ends with a newline: the last
\* element is the empty string.
DiffLines(shape, status, body, omit) ==
    LET first == FileHeader(<<"f">>, status) \o FirstHunk(status, body, omit) IN
    CASE shape = "one hunk" -> first \o << <<>> >>
      [] shape = "two hunks" ->
            first \o HunkText(20, 20 + CountKinds(body, {"+"}) - CountKinds(body, {"-"}),
                              PlainBody, omit) \o << <<>> >>
      [] shape = "two files" ->
            first \o FileHeader(<<"g">>, "modified") \o HunkText(1, 1, PlainBody, omit)
                \o << <<>> >>
      [] shape = "malformed header" ->
            first \o << <<"@", "@", " ", "b", "a", "d">>, <<"+", "x">>, <<>> >>
      [] shape = "late body" ->
            FileHeader(<<"f">>, status) \o HunkText(3, 3, PlainBody, omit)
                \o HunkText(20, 21, body, omit) \o << <<>> >>
      [] shape = "zero start" ->
            FileHeader(<<"f">>, status) \o HunkText(5, 0, body, omit) \o << <<>> >>

Shapes ==
    {"one hunk", "two hunks", "two files", "malformed header", "late body", "zero start"}

\* Shapes that are no output of git: a header that fails the pattern, and a
\* new-side start of 0 in a hunk that has new-side lines.
InvalidShapes == {"malformed header", "zero start"}

\* A hunk body of dels deleted, adds added and ctxs context lines.
LongBody(dels, adds, ctxs) ==
    [k \in 1..(dels + adds + ctxs) |->
        [kind |-> IF k <= dels THEN "-" ELSE IF k <= dels + adds THEN "+" ELSE " ",
         content |-> <<"x">>]]

\* Diffs of one file with one hunk of three to seven changed lines.
LongDiffs ==
    {DiffLines("one hunk", IF dels + ctxs = 0 THEN "added" ELSE "modified",
               LongBody(dels, adds, ctxs), FALSE) :
        dels \in {0, 1}, adds \in {3, 5, 6}, ctxs \in {0, 2}}

\* Texts without a hunk: no file header at all, and a file header that no
\* hunk follows (a binary file).
HunklessTexts ==
    { << <<"h", "e", "l", "l", "o">>, <<"+", "x">>, <<" ", "y">>, <<>> >>,
      << <<"+", "+", "+", " ", "b", "/", "f">>, <<"@", "@", " ", "-", "1", " ", "+", "1", " ", "@", "@">>,
         <<"+", "x">>, <<>> >>,
      << DiffGitPrefix \o <<"a", "/", "f", " ", "b", "/", "f">>,
         <<"B", "i", "n", "a", "r", "y">>, <<>> >> }

\* The locals of parseDiffToChunks once diffText.split has returned
\* (lines 66-72); when diffText is not a string, split throws and control
\* is in the catch block.
ParseInit ==
    /\ \/ /\ \E shape \in Shapes, status \in {"modified", "added", "deleted"},
                body \in HunkBodies, omit \in BOOLEAN :
                /\ StatusFits(status, body)
                /\ shape # "one hunk" => status = "modified"
                /\ lines = DiffLines(shape, status, body, omit)
                /\ diffValid = (shape \notin InvalidShapes)
          /\ li = 1
          /\ ppc = "loop"
       \/ /\ lines \in LongDiffs
          /\ diffValid = TRUE
          /\ li = 1
          /\ ppc = "loop"
       \/ /\ lines \in HunklessTexts
          /\ diffValid = FALSE
          /\ li = 1
          /\ ppc = "loop"
       \/ /\ lines = <<>>
          /\ diffValid = FALSE
          /\ li = 0
          /\ ppc = "catch"
    /\ currentFile = None
    /\ currentHunk = None
    /\ oldLineNumber = 0
    /\ newLineNumber = 0
    /\ pchunks = <<>>
    /\ callLog = <<>>

\* Largest number of calls of parseDiffToChunks on one GitHubService.
MaxCalls == 3

\* Arguments of repeated calls: two diffs that end with a hunk open (one of
\* them after a malformed header), a text that is no diff, and a value that
\* is not a string.
CallArguments ==
    { [isString |-> TRUE, valid |-> TRUE,
       lines |-> DiffLines("two hunks", "modified", PlainBody, TRUE)],
      [isString |-> TRUE, valid |-> FALSE,
       lines |-> DiffLines("malformed header", "modified", PlainBody, FALSE)],
      [isString |-> TRUE, valid |-> FALSE,
       lines |-> << <<"h", "e", "l", "l", "o">>, <<>> >>],
      [isString |-> FALSE, valid |-> FALSE, lines |-> <<>>] }

\* Mutant of FreshLocals: the parser state of the previous call is kept.
StaleLocals ==
    [currentFile |-> currentFile, currentHunk |-> currentHunk,
     oldLineNumber |-> oldLineNumber, newLineNumber |-> newLineNumber]

\* let currentFile = null; let currentHunk = null; let oldLineNumber = 0;
\* let newLineNumber = 0 (lines 69-72): the state of a parse is local to the
\* call, the service object holds none of it.
FreshLocals ==
    [currentFile |-> None, currentHunk |-> None,
     oldLineNumber |-> 0, newLineNumber |-> 0]

\* The entry of a call with argument a (lines 64-72).
Enter(a) ==
    /\ lines' = a.lines
    /\ diffValid' = a.valid
    /\ li' = IF a.isString THEN 1 ELSE 0
    /\ currentFile' = FreshLocals.currentFile
    /\ currentHunk' = FreshLocals.currentHunk
    /\ oldLineNumber' = FreshLocals.oldLineNumber
    /\ newLineNumber' = FreshLocals.newLineNumber
    /\ pchunks' = <<>>
    /\ ppc' = IF a.isString THEN "loop" ELSE "catch"

\* The caller keeps the returned chunks and calls parseDiffToChunks again.
ParseCall ==
    /\ ppc = "returned"
    /\ Len(callLog) + 1 < MaxCalls
    /\ callLog' = Append(callLog, [diffText |-> lines, chunks |-> pchunks])
    /\ \E a \in CallArguments : Enter(a)

\* The first call on a new GitHubService.
ReparseInit ==
    /\ \E a \in CallArguments :
          /\ lines = a.lines
          /\ diffValid = a.valid
          /\ li = IF a.isString THEN 1 ELSE 0
          /\ ppc = IF a.isString THEN "loop" ELSE "catch"
    /\ currentFile = None
    /\ currentHunk = None
    /\ oldLineNumber = 0
    /\ newLineNumber = 0
    /\ pchunks = <<>>
    /\ callLog = <<>>

ParseIdle ==
    /\ lines = <<>>
    /\ diffValid = FALSE
    /\ li = 0
    /\ currentFile = None
    /\ currentHunk = None
    /\ oldLineNumber = 0
    /\ newLineNumber = 0
    /\ pchunks = <<>>
    /\ ppc = "idle"
    /\ callLog = <<>>

(***************************************************************************)
(* Merge and summary: processReviewResults, generateReviewSummary          *)
(***************************************************************************)

\* {...chunk, ...fields}: the fields of chunk, overridden and extended.
Spread(chunk, fields) ==
    [f \in DOMAIN chunk \cup DOMAIN fields |->
        IF f \in DOMAIN fields THEN fields[f] ELSE chunk[f]]

\* The review fields createChunk gives every chunk.
Pending(chunk) == Spread(chunk, [aiComments |-> <<>>, reviewStatus |-> "pending"])

\* A chunk as createChunk returns it, reduced to what the review, the merge
\* and the summary read; id stands for the identity of the object.
ParsedChunk(id, oldPath, newPath, newStart) ==
    Pending([id |-> id, oldFilePath |-> oldPath, newFilePath |-> newPath,
             newStartLine |-> newStart])

\* The hunks of a diff: two hunks of a modified file, an added file, and
\* two deleted files ("+++ /dev/null" and "@@ -1,n +0,0 @@": newFilePath
\* null and newStartLine 0 for both).
Hunks ==
    << ParsedChunk(1, "a.js", "a.js", 1),
       ParsedChunk(2, "a.js", "a.js", 11),
       ParsedChunk(3, Null, "b.js", 1),
       ParsedChunk(4, "c.js", Null, 0),
       ParsedChunk(5, "d.js", Null, 0) >>

\* The chunks of a diff of three modified files with two hunks each.
SixChunks == [k \in 1..(2 * concurrencyLimit) |-> Pending(InputChunks(2 * concurrencyLimit, 2)[k])]

\* What the calls of the six-chunk diff meet: an answer without findings,
\* or an error.
PlainOutcomes ==
    {o \in Outcomes : o.kind = "error" \/ o.reply.text = "reply-good"}

\* The value reviewMultipleChunks returns for chunks cs when the call of the
\* k-th chunk met os[k]: one entry per chunk, in input order, holding the
\* chunk and the review of its own call.
ReviewResultsOf(cs, os) ==
    [k \in 1..Len(cs) |-> [chunk |-> cs[k], review |-> ReviewOfOutcome(os[k], cs[k])]]

\* rr without its d-th entry (rr itself when d = 0).
Without(rr, d) ==
    IF d = 0 THEN rr ELSE SubSeq(rr, 1, d - 1) \o SubSeq(rr, d + 1, Len(rr))

\* r.chunk.newFilePath === chunk.newFilePath &&
\* r.chunk.newStartLine === chunk.newStartLine
SamePlace(r, chunk) ==
    /\ r.chunk.newFilePath = chunk.newFilePath
    /\ r.chunk.newStartLine = chunk.newStartLine

\* Mutant of Find: the last matching entry is taken.
FindLast(rr, chunk) ==
    LET hits == {j \in 1..Len(rr) : SamePlace(rr[j], chunk)} IN
    IF hits = {} THEN None
    ELSE Some(rr[CHOOSE j \in hits : \A h \in hits : h <= j])

\* reviewResults.find(r => ...): the first matching entry, or undefined.
Find(rr, chunk) ==
    LET hits == {j \in 1..Len(rr) : SamePlace(rr[j], chunk)} IN
    IF hits = {} THEN None
    ELSE Some(rr[CHOOSE j \in hits : \A h \in hits : j <= h])

\* processReviewResults(chunks, reviewResults).  A successful review always
\* carries aiComments, overallRating, suggestions and risks, so the "||"
\* defaults of lines 267-271 are never taken.
processReviewResults(cs, rr) ==
    [k \in 1..Len(cs) |->
        LET correspondingReview == Find(rr, cs[k]) IN
        IF correspondingReview # None /\ correspondingReview[1].review.success
        THEN Spread(cs[k],
                    [aiComments |-> correspondingReview[1].review.aiComments,
                     reviewStatus |-> "reviewed",
                     overallRating |-> correspondingReview[1].review.overallRating,
                     suggestions |-> correspondingReview[1].review.suggestions,
                     risks |-> correspondingReview[1].review.risks])
        ELSE Spread(cs[k],
                    [aiComments |-> <<>>,
                     reviewStatus |-> "failed",
                     overallRating |-> "unknown"])]

\* Mutant of ChunksAfterMerge: the review fields are assigned to the chunk
\* itself.
ChunksAfterMergeInPlace(cs, rr) == processReviewResults(cs, rr)

\* The argument chunks after processReviewResults: chunks.map builds a new
\* array and {...chunk, ...} a new object for every chunk, so no property
\* of an argument chunk is assigned.
ChunksAfterMerge(cs, rr) == cs

\* r.review.aiComments.some(c => c.severity === severity)
SomeComment(r, severity) ==
    \E i \in 1..Len(r.review.aiComments) : r.review.aiComments[i].severity = severity

RECURSIVE HighFindings(_)
\* The lines of the attention section: for every successful review, in
\* order, one line for each of its comments of severity high.
HighFindings(rr) ==
    IF rr = <<>> THEN <<>>
    ELSE LET result == Head(rr)
             highSeverityComments ==
                 SelectSeq(result.review.aiComments, LAMBDA c : c.severity = "high")
         IN [i \in 1..Len(highSeverityComments) |->
                [path |-> result.chunk.newFilePath,
                 line |-> highSeverityComments[i].line,
                 content |-> highSeverityComments[i].content]]
            \o HighFindings(Tail(rr))

RECURSIVE FlatSuggestions(_)
\* successfulReviews.flatMap(r => r.review.suggestions); every section that
\* was kept as a suggestion is a non-empty string, so the filter keeps all.
FlatSuggestions(rr) ==
    IF rr = <<>> THEN <<>>
    ELSE Head(rr).review.suggestions \o FlatSuggestions(Tail(rr))

\* allSuggestions.slice(0, 3)
MaxSuggestions == 3

\* The text generateReviewSummary returns, as the sequence of its sections.
SummaryText(reviewedCount, totalChunks, highSeverityIssues, mediumSeverityIssues, findings, allSuggestions) ==
    << [heading |-> "statistics",
        body |-> << [label |-> "reviewed", value |-> reviewedCount, of |-> totalChunks],
                    [label |-> "high", value |-> highSeverityIssues],
                    [label |-> "medium", value |-> mediumSeverityIssues] >>],
       [heading |-> "findings", body |-> <<>>] >>
    \o (IF highSeverityIssues > 0
        THEN << [heading |-> "attention", body |-> findings] >> ELSE <<>>)
    \o (IF Len(allSuggestions) > 0
        THEN << [heading |-> "suggestions",
                 body |-> SubSeq(allSuggestions, 1, Min(MaxSuggestions, Len(allSuggestions)))] >>
        ELSE <<>>)
    \o << [heading |-> "footer", body |-> <<>>] >>

\* Mutant of generateReviewSummary: every result counts as reviewed.
generateReviewSummaryCountsAll(rr) ==
    LET successfulReviews == SelectSeq(rr, LAMBDA r : r.review.success) IN
    SummaryText(Len(rr), Len(rr),
                Len(SelectSeq(successfulReviews, LAMBDA r : SomeComment(r, "high"))),
                Len(SelectSeq(successfulReviews, LAMBDA r : SomeComment(r, "medium"))),
                HighFindings(successfulReviews), FlatSuggestions(successfulReviews))

\* generateReviewSummary(reviewResults, prContext)
generateReviewSummary(rr) ==
    LET successfulReviews == SelectSeq(rr, LAMBDA r : r.review.success) IN
    SummaryText(Len(successfulReviews), Len(rr),
                Len(SelectSeq(successfulReviews, LAMBDA r : SomeComment(r, "high"))),
                Len(SelectSeq(successfulReviews, LAMBDA r : SomeComment(r, "medium"))),
                HighFindings(successfulReviews), FlatSuggestions(successfulReviews))

\* Step 3 of the review: const reviewedChunks = processReviewResults(...)
ProcessReviewResults ==
    /\ mpc = "step 3"
    /\ reviewedChunks' = processReviewResults(mergeChunks, reviewResults)
    /\ mergeChunks' = ChunksAfterMerge(mergeChunks, reviewResults)
    /\ mpc' = "step 4"
    /\ UNCHANGED <<outcomes, reviewResults, summary>>

\* Step 4 of the review: const reviewSummary = generateReviewSummary(...)
GenerateReviewSummary ==
    /\ mpc = "step 4"
    /\ summary' = generateReviewSummary(reviewResults)
    /\ mpc' = "step 5"
    /\ UNCHANGED <<mergeChunks, outcomes, reviewResults, reviewedChunks>>

\* The review after step 2: the chunks of a diff (never none: the review
\* returns before step 2 when the diff has no chunk), what each chunk's call
\* met, and the results of reviewMultipleChunks; for the merge alone, also
\* results that lack the entry of one chunk.
MergeInit ==
    /\ \/ \E files \in (SUBSET (1..Len(Hunks))) \ {{}} :
            /\ mergeChunks = SelectSeq(Hunks, LAMBDA h : h.id \in files)
            /\ outcomes \in [1..Len(mergeChunks) -> Outcomes]
            /\ \E d \in 0..Len(mergeChunks) :
                  reviewResults = Without(ReviewResultsOf(mergeChunks, outcomes), d)
       \/ /\ mergeChunks = SixChunks
          /\ outcomes \in [1..Len(mergeChunks) -> PlainOutcomes]
          /\ reviewResults = ReviewResultsOf(mergeChunks, outcomes)
    /\ reviewedChunks = <<>>
    /\ summary = <<>>
    /\ mpc = "step 3"

MergeIdle ==
    /\ mergeChunks = <<>>
    /\ outcomes = <<>>
    /\ reviewResults = <<>>
    /\ reviewedChunks = <<>>
    /\ summary = <<>>
    /\ mpc = "idle"

(***************************************************************************)
(* Comment poster: addReviewCommentsToPR                                   *)
(***************************************************************************)

\* Largest number of chunks handed to addReviewCommentsToPR.
MaxPostChunks == 7

\* highPriorityChunks.slice(0, 5)
MaxCommentedChunks == 5

\* importantComments.slice(0, 2)
MaxCommentsPerChunk == 2

\* array.slice(0, n)
Slice(s, n) == SubSeq(s, 1, Min(n, Len(s)))

\* The aiComments of a reviewed chunk, by severity.  The first four are what
\* processReviewResults leaves on a chunk (none for a failed review, the one
\* comment of parseAIResponse otherwise); the last is a chunk with more
\* comments than one call of the reviewer yields, as the parameter admits.
CommentLists ==
    << <<>>, <<"low">>, <<"medium">>, <<"high">>, <<"high", "low", "medium", "high">> >>

\* A chunk as processReviewResults returns it, reduced to what
\* addReviewCommentsToPR reads.
ReviewedChunk(id, severities) ==
    [id |-> id,
     aiComments |-> [i \in 1..Len(severities) |->
                        [type |-> "review",
                         content |-> "finding",
                         severity |-> severities[i],
                         line |-> 10 * id + i,
                         path |-> PathNames[((id - 1) % Len(PathNames)) + 1]]]]

\* comment.severity === 'high' || comment.severity === 'medium'
Important(comment) == comment.severity \in {"high", "medium"}

\* reviewedChunks.filter(chunk => chunk.aiComments.some(...))
highPriorityChunks(cs) ==
    SelectSeq(cs, LAMBDA chunk :
                     \E i \in 1..Len(chunk.aiComments) : Important(chunk.aiComments[i]))

\* chunk.aiComments.filter(...)
importantComments(chunk) == SelectSeq(chunk.aiComments, Important)

\* Mutant of CommentsOfChunk: every important comment of the chunk is taken.
CommentsOfChunkUncapped(chunk) == importantComments(chunk)

\* The comments the inner loop runs over.
CommentsOfChunk(chunk) == Slice(importantComments(chunk), MaxCommentsPerChunk)

RECURSIVE LineCommentsOf(_)
\* The comments the nested loops run over, in order, each with its chunk.
LineCommentsOf(cs) ==
    IF cs = <<>> THEN <<>>
    ELSE LET chunk == Head(cs)
             comments == CommentsOfChunk(chunk)
         IN [i \in 1..Len(comments) |-> [chunk |-> chunk.id, comment |-> comments[i]]]
            \o LineCommentsOf(Tail(cs))

\* The line comments one invocation tries to post.
LineComments(cs) == LineCommentsOf(Slice(highPriorityChunks(cs), MaxCommentedChunks))

\* What GitHub holds after addPullRequestComment succeeded.
SummaryPost ==
    [kind |-> "summary", chunk |-> 0,
     comment |-> [type |-> "summary", content |-> "reviewSummary", severity |-> Null,
                  line |-> 0, path |-> Null]]

\* What GitHub holds after addPullRequestReviewComment succeeded.
LinePost(entry) == [kind |-> "line", chunk |-> entry.chunk, comment |-> entry.comment]

\* The loops go on to the next comment, or the function returns.
NextComment ==
    /\ postIdx' = postIdx + 1
    /\ apc' = IF postIdx + 1 > Len(LineComments(postChunks)) THEN "done" ELSE "line"

\* await githubService.addPullRequestComment(...): on success the loops
\* start; on failure the outer catch logs and the function returns.
AddSummaryComment ==
    /\ apc = "summary"
    /\ \E accepted \in BOOLEAN :
          IF accepted
          THEN /\ posted' = Append(posted, SummaryPost)
               /\ postIdx' = 1
               /\ apc' = IF LineComments(postChunks) = <<>> THEN "done" ELSE "line"
          ELSE /\ apc' = "done"
               /\ UNCHANGED <<posted, postIdx>>
    /\ UNCHANGED postChunks

\* One pass of the inner try block up to the delay: getPullRequestDetails,
\* then addPullRequestReviewComment; when either throws the inner catch
\* logs and the loop goes on.
AddLineComment ==
    /\ apc = "line"
    /\ \E met \in {"details failed", "comment failed", "accepted"} :
          IF met = "accepted"
          THEN /\ posted' = Append(posted, LinePost(LineComments(postChunks)[postIdx]))
               /\ apc' = "delay"
               /\ UNCHANGED postIdx
          ELSE /\ NextComment
               /\ UNCHANGED posted
    /\ UNCHANGED postChunks

\* The setTimeout(resolve, 500) after a posted line comment fires.
CommentDelayElapses ==
    /\ apc = "delay"
    /\ NextComment
    /\ UNCHANGED <<postChunks, posted>>

PostInit ==
    /\ \E n \in 0..MaxPostChunks, shift \in 0..(Len(CommentLists) - 1), uniform \in BOOLEAN :
          postChunks =
              [k \in 1..n |->
                  ReviewedChunk(k, CommentLists[IF uniform THEN shift + 1
                                                ELSE ((k + shift) % Len(CommentLists)) + 1])]
    /\ posted = <<>>
    /\ postIdx = 0
    /\ apc = "summary"

PostIdle ==
    /\ postChunks = <<>>
    /\ posted = <<>>
    /\ postIdx = 0
    /\ apc = "idle"

Init == ReviewInit /\ HookIdle /\ ParseIdle /\ MergeIdle /\ PostIdle

Next ==
    \/ StartReview /\ UNCHANGED <<hookVars, parseVars, mergeVars, postVars>>
    \/ (\E k \in 1..concurrencyLimit : CallSettles(k)) /\ UNCHANGED <<hookVars, parseVars, mergeVars, postVars>>
    \/ CollectBatch /\ UNCHANGED <<hookVars, parseVars, mergeVars, postVars>>
    \/ DelayElapses /\ UNCHANGED <<hookVars, parseVars, mergeVars, postVars>>

Spec == Init /\ [][Next]_vars

\* Largest number of chunks in the runs checked for progress.
MaxLiveChunks == 4

InitLive == Init /\ Len(chunks) <= MaxLiveChunks

\* The variables no step of reviewMultipleChunks writes.
otherVars == <<hookVars, parseVars, mergeVars, postVars>>

\* Every review call settles (the timeout of axios.post ends a call that
\* gets no answer), a continuation that can run does run, and an armed
\* timer fires.
SpecLive ==
    /\ InitLive
    /\ [][Next]_vars
    /\ WF_vars(StartReview /\ UNCHANGED otherVars)
    /\ \A k \in 1..concurrencyLimit : WF_vars(CallSettles(k) /\ UNCHANGED otherVars)
    /\ WF_vars(CollectBatch /\ UNCHANGED otherVars)
    /\ WF_vars(DelayElapses /\ UNCHANGED otherVars)

\* The same runs with no assumption on what happens: a call may stay
\* outstanding for ever.
SpecHang == InitLive /\ [][Next]_vars

\* The review of the chunks of a diff that modifies, adds and deletes files.
ReviewInitFiles ==
    /\ apiKey \in BOOLEAN
    /\ \E files \in (SUBSET (1..Len(Hunks))) \ {{}} :
          LET parsed == SelectSeq(Hunks, LAMBDA h : h.id \in files)
          IN chunks = [k \in 1..Len(parsed) |-> [parsed[k] EXCEPT !.id = k]]
    /\ batches = <<>>
    /\ batchIdx = 0
    /\ promises = <<>>
    /\ results = <<>>
    /\ pc = "start"
    /\ inFlight = {}
    /\ callOutcome = [c \in 1..Len(chunks) |-> [kind |-> "none"]]
    /\ issuedLog = <<>>
    /\ arrivals = <<>>
    /\ delays = 0

InitFiles == ReviewInitFiles /\ HookIdle /\ ParseIdle /\ MergeIdle /\ PostIdle

SpecFiles == InitFiles /\ [][Next]_vars

InitVerify == ReviewIdle /\ VerifyInit /\ ParseIdle /\ MergeIdle /\ PostIdle

NextVerify == RunVerify /\ UNCHANGED <<reviewVars, parseVars, mergeVars, postVars>>

SpecVerify == InitVerify /\ [][NextVerify]_vars

InitWebhook == ReviewIdle /\ WebhookInit /\ ParseIdle /\ MergeIdle /\ PostIdle

NextWebhook ==
    \/ AppChain /\ UNCHANGED <<reviewVars, parseVars, mergeVars, postVars>>
    \/ RouterPostGithub /\ UNCHANGED <<reviewVars, parseVars, mergeVars, postVars>>
    \/ HandlePullRequestEvent /\ UNCHANGED <<reviewVars, parseVars, mergeVars, postVars>>

SpecWebhook == InitWebhook /\ [][NextWebhook]_vars

\* The request is served by straight-line code whose only awaits are on
\* functions that return without waiting for anything outside the process,
\* so every step of the chain is eventually taken.
SpecWebhookLive == InitWebhook /\ [][NextWebhook]_vars /\ WF_vars(NextWebhook)

InitParse == ReviewIdle /\ HookIdle /\ ParseInit /\ MergeIdle /\ PostIdle

NextParse ==
    \/ ParseLine /\ UNCHANGED <<reviewVars, hookVars, mergeVars, postVars>>
    \/ ParseReturn /\ UNCHANGED <<reviewVars, hookVars, mergeVars, postVars>>
    \/ ParseCatch /\ UNCHANGED <<reviewVars, hookVars, mergeVars, postVars>>

SpecParse == InitParse /\ [][NextParse]_vars

InitReparse == ReviewIdle /\ HookIdle /\ ReparseInit /\ MergeIdle /\ PostIdle

NextReparse ==
    \/ ParseLine /\ UNCHANGED <<reviewVars, hookVars, mergeVars, postVars>>
    \/ ParseReturn /\ UNCHANGED <<reviewVars, hookVars, mergeVars, postVars>>
    \/ ParseCatch /\ UNCHANGED <<reviewVars, hookVars, mergeVars, postVars>>
    \/ ParseCall /\ UNCHANGED <<reviewVars, hookVars, mergeVars, postVars>>

SpecReparse == InitReparse /\ [][NextReparse]_vars

InitMerge == ReviewIdle /\ HookIdle /\ ParseIdle /\ MergeInit /\ PostIdle

NextMerge ==
    \/ ProcessReviewResults /\ UNCHANGED <<reviewVars, hookVars, parseVars, postVars>>
    \/ GenerateReviewSummary /\ UNCHANGED <<reviewVars, hookVars, parseVars, postVars>>

SpecMerge == InitMerge /\ [][NextMerge]_vars

InitPost == ReviewIdle /\ HookIdle /\ ParseIdle /\ MergeIdle /\ PostInit

NextPost ==
    \/ AddSummaryComment /\ UNCHANGED <<reviewVars, hookVars, parseVars, mergeVars>>
    \/ AddLineComment /\ UNCHANGED <<reviewVars, hookVars, parseVars, mergeVars>>
    \/ CommentDelayElapses /\ UNCHANGED <<reviewVars, hookVars, parseVars, mergeVars>>

SpecPost == InitPost /\ [][NextPost]_vars

(***************************************************************************)
(* Claims about the review orchestrator (specification Spec)               *)
(***************************************************************************)

\* The review chunk k's own call produced, from what that call met.
OwnReview(chunk) ==
    LET o == callOutcome[chunk.id] IN
    IF o.kind = "reply" THEN SuccessReview(o.reply, chunk)
    ELSE IF o.kind = "error" THEN FailedReview(o.message)
    ELSE NoKeyReview

\* ceil(n / 3)
BatchCount(n) == (n + 2) \div 3

\* C1: whatever the order in which the calls settle, reviewMultipleChunks
\* returns exactly one result per input chunk, the i-th result holds the
\* i-th input chunk and the review produced by that chunk's own call; while
\* it runs, the results pushed so far are such a prefix.
C1_ResultsInInputOrder ==
    /\ Len(results) <= Len(chunks)
    /\ \A i \in 1..Len(results) :
          /\ results[i].chunk = chunks[i]
          /\ results[i].review = OwnReview(chunks[i])
    /\ pc = "done" => Len(results) = Len(chunks)

\* C1 witness: a full run in which the last batch settled in reverse order
\* with different reviews.
C1_Witness ==
    /\ pc = "done"
    /\ Len(chunks) = 6
    /\ arrivals = <<3, 2, 1>>
    /\ results[4].review # results[6].review
    /\ results[1].review.success /\ ~results[2].review.success

\* C2: when a chunk's call fails the orchestrator still returns, that
\* chunk's result is {success: false, error, aiComments: []}, and every
\* chunk whose call was answered is reported with success: true; no promise
\* of a batch is ever rejected.
C2_FailureIsolated ==
    /\ \A k \in 1..Len(promises) : promises[k].status \in {"pending", "fulfilled"}
    /\ \A i \in 1..Len(results) :
          LET o == callOutcome[chunks[i].id] IN
          /\ o.kind = "error" =>
                results[i].review =
                    [success |-> FALSE, error |-> o.message, aiComments |-> <<>>]
          /\ o.kind = "reply" => results[i].review.success = TRUE
    /\ (pc = "await" /\ \A k \in 1..Len(promises) : promises[k].status = "fulfilled")
          => ENABLED CollectBatch

\* C2 witness: a returned run where chunk 2 failed while its batch siblings
\* 1 and 3 and chunk 4 of the next batch succeeded.
C2_Witness ==
    /\ pc = "done"
    /\ Len(chunks) >= 4
    /\ callOutcome[2].kind = "error"
    /\ ~results[2].review.success
    /\ results[1].review.success
    /\ results[3].review.success
    /\ results[4].review.success

\* C3: at most 3 calls are in flight; the batches are the consecutive
\* slices of 3 chunks in input order (the last one may be shorter); calls
\* are started in input order, and a call of a later batch is started only
\* when every call of the batches before it has settled.
C3_AtMostThreeInFlight ==
    /\ Cardinality(inFlight) <= 3
    /\ pc # "start" =>
          /\ Len(batches) = BatchCount(Len(chunks))
          /\ \A j \in 1..Len(batches) :
                batches[j] = SubSeq(chunks, 3 * (j - 1) + 1, Min(3 * j, Len(chunks)))
    /\ issuedLog = [i \in 1..Min(3 * batchIdx, Len(chunks)) |-> chunks[i].id]
    /\ \A c \in inFlight : (c - 1) \div 3 + 1 = batchIdx
    /\ \A i \in 1..Len(issuedLog) :
          \A h \in 1..Len(chunks) :
              (h - 1) \div 3 < (issuedLog[i] - 1) \div 3
                  => callOutcome[chunks[h].id].kind # "none"

\* C3 witness: the three calls of the second batch are all in flight.
C3_Witness ==
    /\ batchIdx = 2
    /\ Cardinality(inFlight) = 3
    /\ Len(results) = 3

\* C4: one delay elapses between two consecutive batches and none after the
\* last: while batch j runs j - 1 delays have elapsed, a delay is pending
\* only when every call of the batches so far has settled, their results
\* are pushed and a batch is left, and a finished run over N chunks has
\* seen max(0, ceil(N / 3) - 1) delays (0 when N = 0).
C4_DelayBetweenBatchesOnly ==
    /\ pc = "await" => delays = batchIdx - 1
    /\ pc = "delay" =>
          /\ delays = batchIdx - 1
          /\ batchIdx < Len(batches)
          /\ inFlight = {}
          /\ Len(results) = 3 * batchIdx
          /\ Len(issuedLog) = 3 * batchIdx
    /\ pc = "done" => delays = Max(0, BatchCount(Len(chunks)) - 1)

\* C4 witness: a run over 7 chunks (3 batches) returned after 2 delays.
C4_Witness ==
    /\ pc = "done"
    /\ Len(chunks) = 7
    /\ delays = 2

\* C31: when no API key is configured, every reviewCodeChunk resolves at
\* once with {success: false, error, aiComments: []} and no request is ever
\* outstanding or answered; reviewMultipleChunks over N chunks returns N
\* such failed results and no promise is rejected.
C31_NoKeyShortCircuits ==
    ~apiKey =>
        /\ inFlight = {}
        /\ \A c \in DOMAIN callOutcome : callOutcome[c].kind \in {"none", "nokey"}
        /\ \A k \in 1..Len(promises) :
              /\ promises[k].status = "fulfilled"
              /\ promises[k].value = NoKeyReview
        /\ \A i \in 1..Len(results) :
              /\ results[i].chunk = chunks[i]
              /\ results[i].review =
                    [success |-> FALSE, error |-> NoKeyReview.error, aiComments |-> <<>>]
        /\ pc = "done" => Len(results) = Len(chunks)
        /\ pc = "await" => ENABLED CollectBatch

\* Without a key, the review of seven chunks has returned seven failures.
C31_Witness ==
    /\ ~apiKey
    /\ pc = "done"
    /\ Len(chunks) = MaxChunks
    /\ Len(results) = MaxChunks
    /\ \A i \in 1..Len(results) : ~results[i].review.success
    /\ Len(issuedLog) = MaxChunks

\* Every call that was started has settled.
NoCallOutstanding ==
    /\ inFlight = {}
    /\ \A i \in 1..Len(issuedLog) : callOutcome[issuedLog[i]].kind # "none"

\* C33: when every review call settles, reviewMultipleChunks resolves; and
\* it has resolved only when a call was started for every chunk and every
\* call of every batch has settled, so whatever consumes its result runs
\* while no review call is outstanding.
C33_ResolvesAfterAllSettle ==
    /\ [](pc = "done" =>
            /\ NoCallOutstanding
            /\ Len(issuedLog) = Len(chunks)
            /\ Len(results) = Len(chunks))
    /\ <>(pc = "done")

\* reviewMultipleChunks has resolved after two batches, one call having
\* failed.
C33_Witness ==
    /\ pc = "done"
    /\ apiKey
    /\ Len(chunks) = MaxLiveChunks
    /\ delays = 1
    /\ NoCallOutstanding
    /\ \E c \in DOMAIN callOutcome : callOutcome[c].kind = "error"

\* The batch (counted from 1) of the chunk with id c.
BatchOf(c) == (c - 1) \div 3 + 1

\* C34: while a call of batch j is outstanding, reviewMultipleChunks is at
\* the await of batch j, every call of batch j has been started and none of
\* a later batch, and each outstanding call of batch j can settle on its
\* own; a call leaves the outstanding ones only by settling; so when a call
\* stays outstanding for ever, reviewMultipleChunks never resolves and no
\* call of a later batch is ever started.
C34_HungCallBlocksItsBatch ==
    /\ [](\A c \in inFlight :
            /\ pc = "await"
            /\ batchIdx = BatchOf(c)
            /\ Len(issuedLog) = Min(3 * BatchOf(c), Len(chunks))
            /\ \A k \in 1..Len(promises) :
                  promises[k].status = "pending" => ENABLED CallSettles(k))
    /\ [][\A c \in inFlight :
            c \notin inFlight' => callOutcome'[c].kind \in {"reply", "error"}]_vars
    /\ \A c \in 1..MaxLiveChunks :
          <>[](c \in inFlight) =>
              [](pc # "done" /\ Len(issuedLog) <= 3 * BatchOf(c))

\* One call of the first batch is outstanding after the two others have
\* settled, and a second batch is waiting.
C34_Witness ==
    /\ pc = "await"
    /\ batchIdx = 1
    /\ Len(chunks) = MaxLiveChunks
    /\ inFlight = {2}
    /\ callOutcome[1].kind = "reply"
    /\ callOutcome[3].kind = "error"
    /\ Len(issuedLog) = 3
    /\ results = <<>>

\* The severity parseAIResponse gives the comment of a review of this rating.
SeverityOf(rating) ==
    CASE rating = "needs_attention" -> "high"
      [] rating = "needs_improvement" -> "medium"
      [] rating = "good" -> "low"

\* C37: every successful review carries exactly one comment; its line is
\* the chunk's newStartLine, its path is newFilePath or, when that is null,
\* oldFilePath, and its severity is high exactly for the rating
\* needs_attention, medium exactly for needs_improvement and low exactly
\* for good.
C37_OneCommentPerSuccess ==
    \A i \in 1..Len(results) :
        LET review == results[i].review
            chunk == results[i].chunk
        IN review.success =>
              /\ Len(review.aiComments) = 1
              /\ review.aiComments[1].line = chunk.newStartLine
              /\ review.aiComments[1].path =
                    IF chunk.newFilePath # Null THEN chunk.newFilePath
                    ELSE chunk.oldFilePath
              /\ review.overallRating \in {"needs_attention", "needs_improvement", "good"}
              /\ review.aiComments[1].severity = SeverityOf(review.overallRating)

\* The results hold a successful review of each rating, one of them of a
\* chunk of a deleted file.
C37_Witness ==
    /\ pc = "done"
    /\ \A r \in {"needs_attention", "needs_improvement", "good"} :
          \E i \in 1..Len(results) :
              results[i].review.success /\ results[i].review.overallRating = r
    /\ \E i \in 1..Len(results) :
          /\ results[i].review.success
          /\ results[i].chunk.newFilePath = Null
          /\ results[i].review.aiComments[1].path = results[i].chunk.oldFilePath

(***************************************************************************)
(* Claims about the signature gate (SpecWebhook, SpecVerify)               *)
(***************************************************************************)

\* The request's signature header is the correct signature of its body.
SignatureCorrect ==
    /\ ~Missing(req.signature)
    /\ req.signature.value = ExpectedSignature(secret, req.body)

\* C5: with a secret configured, a request whose signature header is not
\* the correct signature of its body runs no event handler and is answered
\* with the single response 401.
C5_InvalidSignatureNeverDispatched ==
    (secret # NoSecret /\ ~Missing(req.signature) /\ ~SignatureCorrect) =>
        /\ handlersRun = {}
        /\ wpc = "responded" => (Len(wres) = 1 /\ wres[1].status = 401)

\* C6: with a secret configured, a request without a signature header is
\* answered 401 and its event is not processed.
C6_MissingSignatureFailsClosed ==
    (secret # NoSecret /\ Missing(req.signature)) =>
        /\ handlersRun = {}
        /\ wpc = "responded" => (Len(wres) = 1 /\ wres[1].status = 401)

\* C7: with a secret configured, a supplied signature whose length differs
\* from the expected one is rejected as Unauthorized (401) without reaching
\* crypto.timingSafeEqual and without any exception or internal error.
C7_LengthMismatchUnauthorized ==
    (/\ vpc = "returned"
     /\ secret # NoSecret
     /\ ~Missing(req.signature)
     /\ Len(req.signature.value) # Len(ExpectedSignature(secret, req.body))) =>
        /\ vres.status = 401
        /\ ~vres.next
        /\ ~vres.compared
        /\ ~vres.threw

\* C8: with a secret configured and a signature supplied, next() is called
\* exactly when the signature is "sha256=" followed by the hex HMAC of the
\* body under the secret; the same signature with any other body is not
\* accepted.
C8_AcceptsIffSignatureMatches ==
    (vpc = "returned" /\ secret # NoSecret /\ ~Missing(req.signature)) =>
        /\ vres.next <=> req.signature.value = ExpectedSignature(secret, req.body)
        /\ vres.next => vres.status = 0
        /\ ~vres.next => vres.status \in {401, 500}
        /\ vres.next =>
              \A b \in Bodies \ {req.body} :
                  ~verifyGitHubSignature([req EXCEPT !.body = b], secret).next

\* C8 witness: a correctly signed request was let through.
C8_Witness ==
    /\ vpc = "returned"
    /\ secret = "test_webhook_secret"
    /\ ~Missing(req.signature)
    /\ req.signature.value = ExpectedSignature(secret, req.body)
    /\ vres.next
    /\ vres.compared

\* C9 as stated: without a secret, a request that supplies a signature is
\* never passed on with next().
C9_NoSecretNeverNext ==
    (vpc = "returned" /\ secret = NoSecret /\ ~Missing(req.signature)) => ~vres.next

\* C9 amended: without a secret, verifyGitHubSignature logs the warning
\* that verification is skipped and calls next() for every request, with or
\* without a signature; it compares nothing and sends no response.
C9_NoSecretSkipsWithWarning ==
    (vpc = "returned" /\ secret = NoSecret) =>
        /\ vres.next
        /\ vres.warned
        /\ vres.status = 0
        /\ ~vres.compared

\* C9 witness: a signed request was passed on although no secret is set.
C9_Witness ==
    /\ vpc = "returned"
    /\ secret = NoSecret
    /\ ~Missing(req.signature)
    /\ vres.next
    /\ vres.warned

\* The request is a pull_request event whose body parses and holds every
\* object extractPullRequestInfo reads, and it has been answered.
AnsweredPullRequest ==
    /\ wpc = "responded"
    /\ req.eventType = "pull_request"
    /\ req.body.valid
    /\ req.body.complete

\* C21: for a pull_request event, the actions opened, synchronize and
\* ready_for_review cause reviewMultipleChunks to be invoked on the chunks
\* parsed from the diff when there is at least one chunk; the actions closed
\* and reopened never invoke it.
C21_ReviewActionsInvokeOrchestrator ==
    AnsweredPullRequest =>
        /\ (/\ req.body.action \in {"opened", "synchronize", "ready_for_review"}
            /\ world.diff = "chunks")
               => "reviewMultipleChunks" \in handlersRun
        /\ req.body.action \in {"closed", "reopened"}
               => "reviewMultipleChunks" \notin handlersRun

\* C22: a pull_request event with a complete body is answered, whatever
\* its action (the five handled ones or an unrecognized one), with the
\* single response 200, processed = true, a message containing the action,
\* and pullRequest.number and pullRequest.title taken from the payload.
C22_PullRequestAcknowledged ==
    AnsweredPullRequest =>
        /\ Len(wres) = 1
        /\ wres[1].status = 200
        /\ wres[1].processed = TRUE
        /\ req.body.action \in Range(wres[1].message)
        /\ wres[1].pullRequest.number = req.body.number
        /\ wres[1].pullRequest.title = req.body.title

\* A pull_request event with an action that has no handler has been
\* answered.
C22_Witness ==
    /\ AnsweredPullRequest
    /\ req.body.action = "edited"
    /\ wres[1].status = 200
    /\ handlersRun = {"pull_request"}

\* The functions of the review step.
ReviewSteps ==
    {"performCodeReview", "getPullRequestDiffFromUrl", "parseDiffToChunks",
     "reviewMultipleChunks"}

\* C23: an event of type 'ping' (with a body that parses) is answered 200
\* with the payload's zen token echoed, and never triggers a diff fetch, a
\* parse or a review call.
C23_PingEchoesZen ==
    (req.eventType = "ping" /\ req.body.valid) =>
        /\ handlersRun \cap (ReviewSteps \cup {"pull_request"}) = {}
        /\ wpc = "responded" =>
              /\ Len(wres) = 1
              /\ wres[1].status = 200
              /\ wres[1].zen = req.body.zen

\* A ping carrying a zen token has been answered.
C23_Witness ==
    /\ wpc = "responded"
    /\ req.eventType = "ping"
    /\ req.body.zen = "Design for failure."
    /\ wres[1].zen = "Design for failure."
    /\ world.diff = "chunks"

\* The event type is neither of the two the router has a case for.
UnknownEvent == req.eventType \notin {"ping", "pull_request"}

\* The single response is the acknowledgement of an unhandled event type.
AcknowledgedUnhandled ==
    /\ Len(wres) = 1
    /\ wres[1].status = 200
    /\ wres[1].processed = FALSE
    /\ req.eventType \in Range(wres[1].message)

\* C24 as stated: any event type other than 'ping' and 'pull_request' is
\* acknowledged with 200, processed = false and a message containing the
\* event type; it is never answered with an error and never runs a handler.
C24_UnknownEventNeverErrors ==
    UnknownEvent =>
        /\ handlersRun \subseteq {"default"}
        /\ wpc = "responded" => AcknowledgedUnhandled

\* C24, amended: when the body parses as JSON, an event type other than
\* 'ping' and 'pull_request' is acknowledged with 200, processed = false
\* and a message containing the event type; when the body does not parse,
\* the request is answered 500; in both cases no handler runs.
C24_UnknownEventAcknowledged ==
    UnknownEvent =>
        /\ handlersRun \subseteq {"default"}
        /\ wpc = "responded" =>
              IF req.body.valid THEN AcknowledgedUnhandled
              ELSE Len(wres) = 1 /\ wres[1].status = 500

\* An event of an unhandled type with a JSON body has been acknowledged.
C24_Witness ==
    /\ wpc = "responded"
    /\ req.eventType = "push"
    /\ req.body.valid
    /\ wres[1].status = 200
    /\ handlersRun = {"default"}

\* The five actions the switch of handlePullRequestEvent has a handler for.
HandledActions == {"opened", "synchronize", "ready_for_review", "closed", "reopened"}

\* C25: when extracting the required fields of a pull_request body raises
\* because pull_request, repository, sender or a nested object is missing,
\* the event is answered with the internal-error response (500) carrying
\* the message of the error, and no action handler or review step runs.
C25_ExtractionFailureIs500 ==
    (req.eventType = "pull_request" /\ req.body.valid /\ ~req.body.complete) =>
        /\ handlersRun \cap (HandledActions \cup ReviewSteps) = {}
        /\ wpc = "responded" =>
              /\ Len(wres) = 1
              /\ wres[1].status = 500
              /\ wres[1].message = ExtractionError(req.body)
              /\ req.body.missing \in Range(wres[1].message)

\* A pull_request body of a review action that lacks a nested object has
\* been answered.
C25_Witness ==
    /\ wpc = "responded"
    /\ req.eventType = "pull_request"
    /\ req.body.valid
    /\ req.body.missing = "pull_request.head"
    /\ req.body.action \in HandledActions
    /\ wres[1].status = 500

C27_SuccessShape ==
    (wpc = "responded" /\ wres[1].status = 200) =>
        /\ "message" \in DOMAIN wres[1]
        /\ "timestamp" \in DOMAIN wres[1]
        /\ req.eventType # "ping" =>
              /\ "processed" \in DOMAIN wres[1]
              /\ wres[1].processed \in BOOLEAN

\* C39: for every request to POST /webhook/github, whatever the event
\* type and whether or not the decoding of the body, the extraction of the
\* fields or the handler of the action raises, exactly one response is
\* sent: never a second one after the first, and eventually one.
C39_ExactlyOneResponse ==
    /\ [](Len(wres) <= 1)
    /\ [](wpc = "responded" => Len(wres) = 1)
    /\ <>[](wpc = "responded" /\ Len(wres) = 1)

\* A pull_request delivery whose body decodes but lacks an object that
\* extractPullRequestInfo reads has been answered, once, by the catch
\* block of the router.
C39_Witness ==
    /\ wpc = "responded"
    /\ req.eventType = "pull_request"
    /\ req.body.valid
    /\ extractPullRequestInfo(req.body) = None
    /\ Len(wres) = 1
    /\ wres[1].status = 500

(***************************************************************************)
(* Claims about the merge and the summary (SpecMerge)                      *)
(***************************************************************************)

\* processReviewResults has returned.
Merged == mpc \in {"step 4", "step 5"}

\* The merged chunk carries the comments and the rating of review.
CopiedFrom(merged, review) ==
    /\ merged.reviewStatus = "reviewed"
    /\ merged.aiComments = review.aiComments
    /\ merged.overallRating = review.overallRating

\* The merged chunk is marked failed and carries no comment.
MarkedFailed(merged) ==
    /\ merged.reviewStatus = "failed"
    /\ merged.aiComments = <<>>

\* The entries of reviewResults for the place (newFilePath, newStartLine)
\* of chunk.
Matches(chunk) == {j \in 1..Len(reviewResults) : SamePlace(reviewResults[j], chunk)}

FailedCalls == {k \in 1..Len(outcomes) : outcomes[k].kind = "error"}

\* The sections of the summary with the given heading.
SectionsOf(heading) == SelectSeq(summary, LAMBDA section : section.heading = heading)

\* C29: for the N chunks of a diff whose results come from the orchestrator,
\* when the calls of the chunks in F fail and the others succeed, the merge
\* marks exactly the chunks in F 'failed' and the others 'reviewed', each
\* with the comments of its own call, and the summary reports
\* (N - |F|)/N reviewed.
C29_EachChunkItsOwnOutcome ==
    (mpc = "step 5" /\ Len(reviewResults) = Len(mergeChunks)) =>
        /\ \A k \in 1..Len(mergeChunks) :
              IF k \in FailedCalls
              THEN MarkedFailed(reviewedChunks[k])
              ELSE CopiedFrom(reviewedChunks[k],
                              ReviewOfOutcome(outcomes[k], mergeChunks[k]))
        /\ Len(SectionsOf("statistics")) = 1
        /\ SectionsOf("statistics")[1].body[1] =
              [label |-> "reviewed",
               value |-> Len(mergeChunks) - Cardinality(FailedCalls),
               of |-> Len(mergeChunks)]

\* The number of successful results with a comment of the given severity.
WithSeverity(severity) ==
    Cardinality({j \in 1..Len(reviewResults) :
                    /\ reviewResults[j].review.success
                    /\ SomeComment(reviewResults[j], severity)})

\* C30: the summary has a statistics section giving the number of
\* successful results out of the number of results, the number of
\* successful results with at least one 'high' comment and the number with
\* at least one 'medium' comment, whatever the counts are (zero included);
\* failed results add to neither severity count.
C30_SummaryCounts ==
    mpc = "step 5" =>
        /\ Len(SectionsOf("statistics")) = 1
        /\ SectionsOf("statistics")[1].body =
              << [label |-> "reviewed",
                  value |-> Cardinality({j \in 1..Len(reviewResults) :
                                            reviewResults[j].review.success}),
                  of |-> Len(reviewResults)],
                 [label |-> "high", value |-> WithSeverity("high")],
                 [label |-> "medium", value |-> WithSeverity("medium")] >>
        /\ LET successful ==
                   generateReviewSummary(SelectSeq(reviewResults, LAMBDA r : r.review.success))
           IN /\ successful[1].body[2] = SectionsOf("statistics")[1].body[2]
              /\ successful[1].body[3] = SectionsOf("statistics")[1].body[3]

\* A summary of results of which one failed, one has a high comment and one
\* a medium comment.
C30_Witness ==
    /\ mpc = "step 5"
    /\ \E j \in 1..Len(reviewResults) : ~reviewResults[j].review.success
    /\ SectionsOf("statistics")[1].body[2].value = 1
    /\ SectionsOf("statistics")[1].body[3].value = 1

\* A summary of results that all failed: every count but the total is zero.
AllZeroSummary ==
    /\ mpc = "step 5"
    /\ Len(reviewResults) > 1
    /\ SectionsOf("statistics")[1].body =
          << [label |-> "reviewed", value |-> 0, of |-> Len(reviewResults)],
             [label |-> "high", value |-> 0],
             [label |-> "medium", value |-> 0] >>

\* Chunks 2 and 4 of six failed and the summary reports 4/6.
FourOfSix ==
    /\ mpc = "step 5"
    /\ Len(mergeChunks) = 6
    /\ FailedCalls = {2, 4}
    /\ {k \in 1..6 : reviewedChunks[k].reviewStatus = "failed"} = {2, 4}
    /\ SectionsOf("statistics")[1].body[1].value = 4
    /\ SectionsOf("statistics")[1].body[1].of = 6

\* The fields createChunk gives a chunk besides the two review fields.
ParsedFields(chunk) == DOMAIN chunk \ {"aiComments", "reviewStatus"}

\* C38: processReviewResults leaves its inputs unchanged: the original
\* chunks keep reviewStatus 'pending' and empty aiComments and the review
\* results are not modified; it returns one new annotated chunk per input
\* chunk, in the same order.
C38_MergeLeavesInputsUnchanged ==
    [][(mpc = "step 3" /\ mpc' = "step 4") =>
          /\ mergeChunks' = mergeChunks
          /\ reviewResults' = reviewResults
          /\ \A k \in 1..Len(mergeChunks') :
                /\ mergeChunks'[k].reviewStatus = "pending"
                /\ mergeChunks'[k].aiComments = <<>>
          /\ Len(reviewedChunks') = Len(mergeChunks)
          /\ \A k \in 1..Len(mergeChunks) :
                /\ reviewedChunks'[k].reviewStatus \in {"reviewed", "failed"}
                /\ \A f \in ParsedFields(mergeChunks[k]) :
                      reviewedChunks'[k][f] = mergeChunks[k][f]]_vars

\* After the merge of several chunks, one annotated chunk is 'reviewed' and
\* carries a comment, another is 'failed', and every original chunk is
\* still 'pending' without comments.
C38_Witness ==
    /\ Merged
    /\ Len(mergeChunks) >= 3
    /\ \E k \in 1..Len(reviewedChunks) :
          reviewedChunks[k].reviewStatus = "reviewed" /\ reviewedChunks[k].aiComments # <<>>
    /\ \E k \in 1..Len(reviewedChunks) : reviewedChunks[k].reviewStatus = "failed"
    /\ \A k \in 1..Len(mergeChunks) :
          mergeChunks[k].reviewStatus = "pending" /\ mergeChunks[k].aiComments = <<>>

(***************************************************************************)
(* Claims about the comment poster (SpecPost)                              *)
(***************************************************************************)

\* The positions of posted that hold a line comment.
LinePosts == {i \in 1..Len(posted) : posted[i].kind = "line"}

\* C32: one invocation of addReviewCommentsToPR posts at most one summary
\* comment and at most 10 line comments, on at most 5 chunks with at most 2
\* comments each; every line comment posted has severity high or medium;
\* and a line comment is posted only after the summary comment was accepted.
C32_PostsBounded ==
    /\ Cardinality({i \in 1..Len(posted) : posted[i].kind = "summary"}) <= 1
    /\ Cardinality(LinePosts) <= 10
    /\ Cardinality({posted[i].chunk : i \in LinePosts}) <= 5
    /\ \A i \in LinePosts :
          /\ Cardinality({h \in LinePosts : posted[h].chunk = posted[i].chunk}) <= 2
          /\ posted[i].comment.severity \in {"high", "medium"}
          /\ \E h \in 1..(i - 1) : posted[h].kind = "summary"
          /\ \E k \in 1..Len(postChunks) :
                /\ postChunks[k].id = posted[i].chunk
                /\ posted[i].comment \in Range(postChunks[k].aiComments)

\* Seven chunks with three important comments each: the invocation has
\* returned after the summary and ten line comments were accepted.
C32_Witness ==
    /\ apc = "done"
    /\ Len(postChunks) = 7
    /\ \A k \in 1..Len(postChunks) : Len(importantComments(postChunks[k])) = 3
    /\ Len(posted) = 11
    /\ posted[1].kind = "summary"

\* The summary comment was refused and the invocation has returned.
SummaryRefused ==
    /\ apc = "done"
    /\ postIdx = 0
    /\ LineComments(postChunks) # <<>>
    /\ posted = <<>>

(***************************************************************************)
(* Claims about the diff parser (SpecParse)                                *)
(***************************************************************************)

CountType(chunk, types) ==
    Cardinality({k \in 1..Len(chunk.changes) : chunk.changes[k].type \in types})

\* C10: for a valid unified diff, whatever its changed lines contain, every
\* returned chunk has as many 'add' and 'normal' changes as its header's
\* new count and as many 'del' and 'normal' changes as its old count.
C10_CountsMatchHeader ==
    (ppc = "returned" /\ diffValid) =>
        \A k \in 1..Len(pchunks) :
            /\ CountType(pchunks[k], {"add", "normal"}) = pchunks[k].newLines
            /\ CountType(pchunks[k], {"del", "normal"}) = pchunks[k].oldLines

\* The non-null values of one side's line numbers, in sequence order.
NumbersOf(changes, side) ==
    LET sel == SelectSeq(changes, LAMBDA c : c[side] # None)
    IN [k \in 1..Len(sel) |-> sel[k][side][1]]

StrictlyIncreasing(ns) == \A k \in 1..(Len(ns) - 1) : ns[k] < ns[k + 1]

\* C11: in every returned chunk the non-null oldLineNumber values of the
\* changes strictly increase in sequence order, and so do the non-null
\* newLineNumber values; an 'add' change has oldLineNumber null and a 'del'
\* change has newLineNumber null.
C11_LineNumbersIncrease ==
    ppc = "returned" =>
        \A k \in 1..Len(pchunks) :
            LET changes == pchunks[k].changes IN
            /\ StrictlyIncreasing(NumbersOf(changes, "oldLineNumber"))
            /\ StrictlyIncreasing(NumbersOf(changes, "newLineNumber"))
            /\ \A c \in 1..Len(changes) :
                   /\ changes[c].type = "add" => changes[c].oldLineNumber = None
                   /\ changes[c].type = "del" => changes[c].newLineNumber = None

\* A returned chunk with two numbers on the new side, one of an added line.
C11_Witness ==
    /\ ppc = "returned"
    /\ \E k \in 1..Len(pchunks) :
          LET changes == pchunks[k].changes IN
          /\ Len(NumbersOf(changes, "newLineNumber")) >= 2
          /\ \E c \in 1..Len(changes) : changes[c].type = "add"

\* Positions of the well-formed hunk headers that follow a 'diff --git' line.
HeaderPositions(ls) ==
    {i \in 1..Len(ls) :
        /\ MatchHunkHeader(ls[i]) # None
        /\ \E j \in 1..(i - 1) : StartsWith(ls[j], DiffGitPrefix)}

\* C12: parseDiffToChunks returns exactly one chunk for each well-formed
\* hunk header that follows a 'diff --git' line (context-only hunks
\* included); a line starting with '@@' that fails the pattern produces no
\* chunk, so no hunk is emitted twice.
C12_OneChunkPerHeader ==
    ppc = "returned" => Len(pchunks) = Cardinality(HeaderPositions(lines))

\* The change the line at position li is to be recorded as.
ExpectedChange ==
    LET line == lines[li]
        type == IF StartsWith(line, <<"+">>) THEN "add"
                ELSE IF StartsWith(line, <<"-">>) THEN "del" ELSE "normal"
    IN [type |-> type,
        content |-> Substring(line, 1),
        oldLineNumber |-> IF type = "add" THEN None ELSE Some(oldLineNumber),
        newLineNumber |-> IF type = "del" THEN None ELSE Some(newLineNumber)]

\* C13: while a hunk is open, every line (other than the 'diff --git' or
\* '@@' line that closes it) is recorded as a change: '+' gives 'add' with
\* the new number only, which is then incremented; '-' gives 'del' with the
\* old number only, which is then incremented; a blank or any other first
\* character gives 'normal' with both numbers, both then incremented.
C13_EveryHunkLineRecorded ==
    [][ ( /\ ppc = "loop"
          /\ li <= Len(lines)
          /\ li' = li + 1
          /\ currentHunk # None
          /\ ~StartsWith(lines[li], DiffGitPrefix)
          /\ ~StartsWith(lines[li], <<"@", "@">>) )
        => /\ currentHunk' # None
           /\ currentHunk'[1].changes = Append(currentHunk[1].changes, ExpectedChange)
           /\ oldLineNumber' = oldLineNumber + (IF ExpectedChange.type = "add" THEN 0 ELSE 1)
           /\ newLineNumber' = newLineNumber + (IF ExpectedChange.type = "del" THEN 0 ELSE 1)
      ]_vars

\* C14: for every change of every chunk, lineNumber is newLineNumber
\* whenever that is defined (0 included), otherwise oldLineNumber whenever
\* that is defined (0 included), otherwise newStartLine plus the index of
\* the change in its hunk.
C14_LineNumberFirstDefined ==
    ppc = "returned" =>
        \A k \in 1..Len(pchunks) : \A c \in 1..Len(pchunks[k].changes) :
            LET change == pchunks[k].changes[c] IN
            change.lineNumber =
                IF change.newLineNumber # None THEN change.newLineNumber[1]
                ELSE IF change.oldLineNumber # None THEN change.oldLineNumber[1]
                ELSE pchunks[k].newStartLine + (c - 1)

\* The k-th smallest element of a finite set of numbers.
Nth(S, k) == CHOOSE x \in S : Cardinality({y \in S : y < x}) = k - 1

\* Position of the 'diff --git' line of the file that line i belongs to.
FileStart(ls, i) ==
    CHOOSE f \in 1..i :
        /\ StartsWith(ls[f], DiffGitPrefix)
        /\ \A g \in (f + 1)..i : ~StartsWith(ls[g], DiffGitPrefix)

\* The path of the file's header line with the given prefix: the first such
\* line after the 'diff --git' line at f and before the hunk header at h
\* (None when the header has no such line).
HeaderPath(ls, f, h, prefix) ==
    LET at == {i \in (f + 1)..(h - 1) : StartsWith(ls[i], prefix)}
    IN IF at = {} THEN None ELSE Some(Substring(ls[Nth(at, 1)], 4))

\* The path a header line stores: null for the sentinel, otherwise the path
\* without the given prefix.
StoredPath(path, prefix) ==
    IF path = None \/ path = Some(DevNull) THEN None
    ELSE IF StartsWith(path[1], prefix) THEN Some(Substring(path[1], 2))
    ELSE path

\* C15: the chunks of a file whose old-path line is '--- /dev/null' have
\* fileStatus 'added' and oldFilePath null; those of a file whose new-path
\* line is '+++ /dev/null' have fileStatus 'deleted' and newFilePath null;
\* with neither sentinel the status is 'modified'; the stored paths are the
\* header's paths without the 'a/' and 'b/' prefixes.  (Stated for the
\* parses that return one chunk per hunk header, the k-th chunk being that
\* of the k-th header.)
C15_StatusAndPathsFromHeader ==
    (ppc = "returned" /\ Len(pchunks) = Cardinality(HeaderPositions(lines))) =>
        \A k \in 1..Len(pchunks) :
            LET h == Nth(HeaderPositions(lines), k)
                f == FileStart(lines, h)
                old == HeaderPath(lines, f, h, OldPathPrefix)
                new == HeaderPath(lines, f, h, NewPathPrefix)
            IN /\ pchunks[k].fileStatus =
                     IF old = Some(DevNull) THEN "added"
                     ELSE IF new = Some(DevNull) THEN "deleted" ELSE "modified"
               /\ pchunks[k].oldFilePath = StoredPath(old, <<"a", "/">>)
               /\ pchunks[k].newFilePath = StoredPath(new, <<"b", "/">>)

\* C16: all chunks produced from the hunks of one file (from one
\* 'diff --git' line to the next or to the end of the input) carry the same
\* oldFilePath, newFilePath and fileStatus, whatever the lines inside those
\* hunks contain.  (The k-th chunk is that of the k-th hunk header.)
C16_OneIdentityPerFile ==
    (ppc = "returned" /\ Len(pchunks) = Cardinality(HeaderPositions(lines))) =>
        \A j, k \in 1..Len(pchunks) :
            FileStart(lines, Nth(HeaderPositions(lines), j))
                    = FileStart(lines, Nth(HeaderPositions(lines), k))
                => /\ pchunks[j].oldFilePath = pchunks[k].oldFilePath
                   /\ pchunks[j].newFilePath = pchunks[k].newFilePath
                   /\ pchunks[j].fileStatus = pchunks[k].fileStatus

\* C17: every returned chunk has at least one of oldFilePath and newFilePath
\* non-null, its fileStatus is 'added' exactly when oldFilePath is null and
\* 'deleted' exactly when newFilePath is null.
C17_StatusAgreesWithPaths ==
    ppc = "returned" =>
        \A k \in 1..Len(pchunks) :
            /\ pchunks[k].oldFilePath # None \/ pchunks[k].newFilePath # None
            /\ pchunks[k].fileStatus = "added" <=> pchunks[k].oldFilePath = None
            /\ pchunks[k].fileStatus = "deleted" <=> pchunks[k].newFilePath = None

\* The line is one of the four kinds the parser knows outside a hunk.
Recognized(line) ==
    \/ StartsWith(line, DiffGitPrefix)
    \/ StartsWith(line, OldPathPrefix)
    \/ StartsWith(line, NewPathPrefix)
    \/ StartsWith(line, <<"@", "@">>)

\* The input holds no file header: text that is no diff, or no text at all.
NoFileHeader == \A i \in 1..Len(lines) : ~StartsWith(lines[i], DiffGitPrefix)

\* C18: parseDiffToChunks never raises; a line that is not recognized while
\* no hunk is open is skipped and changes neither the parser state nor the
\* output; an input that cannot be parsed at all (not a string, or a text
\* without a file header) yields the empty chunk sequence.
C18_NeverRaisesSkipsUnknown ==
    /\ [](ppc # "raised")
    /\ []((ppc = "returned" /\ NoFileHeader) => pchunks = <<>>)
    /\ [][ ( /\ ppc = "loop"
             /\ li <= Len(lines)
             /\ li' = li + 1
             /\ currentHunk = None
             /\ ~Recognized(lines[li]) )
           => UNCHANGED <<currentFile, currentHunk, oldLineNumber, newLineNumber,
                          pchunks>>
         ]_vars

\* A text of unrecognized lines only has been read to its end and the call
\* has returned no chunk.
C18_Witness ==
    /\ ppc = "returned"
    /\ Len(lines) > 1
    /\ \A i \in 1..Len(lines) : ~Recognized(lines[i])
    /\ \E i \in 1..Len(lines) : StartsWith(lines[i], <<"+">>)
    /\ li > Len(lines)
    /\ pchunks = <<>>

RECURSIVE ContentsInOrder(_, _)
\* The contents of the changes of one type, in hunk order.
ContentsInOrder(changes, type) ==
    IF changes = <<>> THEN <<>>
    ELSE (IF Head(changes).type = type THEN <<Head(changes).content>> ELSE <<>>)
             \o ContentsInOrder(Tail(changes), type)

\* C20: in every chunk, context.addedLines, deletedLines and contextLines
\* are the contents of its 'add', 'del' and 'normal' changes in hunk order,
\* totalChanges is |addedLines| + |deletedLines|, and isSignificant is true
\* exactly when totalChanges > 5 (context lines never count).
C20_ContextPartitionsChanges ==
    ppc = "returned" =>
        \A k \in 1..Len(pchunks) :
            LET context == pchunks[k].context
                changes == pchunks[k].changes
            IN /\ context.addedLines = ContentsInOrder(changes, "add")
               /\ context.deletedLines = ContentsInOrder(changes, "del")
               /\ context.contextLines = ContentsInOrder(changes, "normal")
               /\ context.totalChanges =
                      Len(context.addedLines) + Len(context.deletedLines)
               /\ context.isSignificant <=> context.totalChanges > 5

\* A returned chunk of five added lines, one deleted line and two context
\* lines: six changes, significant.
C20_Witness ==
    /\ ppc = "returned"
    /\ \E k \in 1..Len(pchunks) :
          /\ Len(pchunks[k].context.addedLines) = 5
          /\ Len(pchunks[k].context.deletedLines) = 1
          /\ Len(pchunks[k].context.contextLines) = 2
          /\ pchunks[k].context.isSignificant

\* The line closes the hunk in progress: a 'diff --git' line or a line that
\* starts with '@@'.
Boundary(line) == StartsWith(line, DiffGitPrefix) \/ StartsWith(line, <<"@", "@">>)

\* Position of the last boundary line before line i (0 when there is none).
LastBoundary(ls, i) ==
    LET at == {h \in 1..(i - 1) : Boundary(ls[h])}
    IN IF at = {} THEN 0 ELSE CHOOSE h \in at : \A g \in at : g <= h

\* Line i is a line of a hunk: the last boundary before it is a well-formed
\* hunk header and the line is no boundary itself.
HunkLine(ls, i) ==
    /\ ~Boundary(ls[i])
    /\ LastBoundary(ls, i) > 0
    /\ MatchHunkHeader(ls[LastBoundary(ls, i)]) # None

OldSide(line) == StartsWith(line, <<"-">>) \/ StartsWith(line, <<" ">>)

NewSide(line) == StartsWith(line, <<"+">>) \/ StartsWith(line, <<" ">>)

\* The number of lines of line i's hunk, up to and including line i, that
\* are on the old side, and on the new side.
OldSideUpTo(ls, i) == Cardinality({g \in (LastBoundary(ls, i) + 1)..i : OldSide(ls[g])})

NewSideUpTo(ls, i) == Cardinality({g \in (LastBoundary(ls, i) + 1)..i : NewSide(ls[g])})

\* The header text of a hunk record, a count of 1 written or left out.
HeaderOf(hunk, omitOld, omitNew) ==
    <<"@", "@", " ">>
        \o RangeText("-", hunk.oldStartLine, hunk.oldLines, omitOld)
        \o <<" ">>
        \o RangeText("+", hunk.newStartLine, hunk.newLines, omitNew)
        \o <<" ", "@", "@">>

\* C35: a well-formed hunk header '@@ -a[,b] +c[,d] @@' opens a hunk with
\* oldStartLine a, oldLines b, newStartLine c and newLines d, an omitted
\* count being 1, and no change yet; the j-th old-side line of a hunk (first
\* character '-' or ' ') is recorded with oldLineNumber a + j - 1 and the
\* j-th new-side line (first character '+' or ' ') with newLineNumber
\* c + j - 1.
C35_HeaderOpensHunkAndNumbersLines ==
    [][ (ppc = "loop" /\ li <= Len(lines) /\ li' = li + 1) =>
          /\ MatchHunkHeader(lines[li]) # None =>
                /\ currentHunk' # None
                /\ currentHunk'[1].changes = <<>>
                /\ \E omitOld, omitNew \in BOOLEAN :
                      StartsWith(lines[li], HeaderOf(currentHunk'[1], omitOld, omitNew))
          /\ (HunkLine(lines, li) /\ (OldSide(lines[li]) \/ NewSide(lines[li]))) =>
                /\ currentHunk # None /\ currentHunk' # None
                /\ Len(currentHunk'[1].changes) = Len(currentHunk[1].changes) + 1
                /\ LET change == currentHunk'[1].changes[Len(currentHunk'[1].changes)] IN
                   /\ OldSide(lines[li]) =>
                         change.oldLineNumber =
                             Some(currentHunk[1].oldStartLine + OldSideUpTo(lines, li) - 1)
                   /\ NewSide(lines[li]) =>
                         change.newLineNumber =
                             Some(currentHunk[1].newStartLine + NewSideUpTo(lines, li) - 1)
      ]_vars

\* C36: every line starting with '@@' and every 'diff --git' line closes the
\* hunk in progress: after it either no hunk is open or a new hunk without
\* changes is; and a line that follows a 'diff --git' line or a malformed
\* '@@' line, before the next boundary, is added to no hunk and to no chunk,
\* so the chunk of the hunk that was open holds only the lines before the
\* boundary.
C36_BoundaryClosesHunk ==
    [][ (ppc = "loop" /\ li <= Len(lines) /\ li' = li + 1) =>
          /\ Boundary(lines[li]) =>
                \/ currentHunk' = None
                \/ currentHunk'[1].changes = <<>>
          /\ (~Boundary(lines[li]) /\ LastBoundary(lines, li) > 0 /\ ~HunkLine(lines, li)) =>
                UNCHANGED <<currentHunk, pchunks>>
      ]_vars

(***************************************************************************)
(* Claims about repeated parses (SpecReparse)                              *)
(***************************************************************************)

\* C19: parseDiffToChunks is deterministic and keeps no state between
\* calls: a call returns chunks structurally equal to those every earlier
\* call on the same diff text returned, whatever was parsed in between.
C19_SameTextSameChunks ==
    ppc = "returned" =>
        \A c \in 1..Len(callLog) :
            callLog[c].diffText = lines => callLog[c].chunks = pchunks

\* The third call has returned chunks for the text of the first call, the
\* second call having parsed another text.
C19_Witness ==
    /\ ppc = "returned"
    /\ Len(callLog) = 2
    /\ callLog[1].diffText = lines
    /\ callLog[2].diffText # lines
    /\ pchunks # <<>>

====
